---- MODULE Spec2Model ----
(***************************************************************************)
(* PostureLens alerting core: hand/face proximity detector, posture        *)
(* deviation detector, alert engine (global cooldown) and the per-frame    *)
(* orchestration that joins them.                                          *)
(*                                                                         *)
(* Numbers.  Landmark coordinates, depths and thresholds are held in       *)
(* hundredths (0.18 is 18); ratios and smoothed values in thousandths.     *)
(* Distances are compared through their squares, so no square root is      *)
(* taken where the code only compares.  Time is in milliseconds.           *)
(***************************************************************************)
EXTENDS Integers, Sequences, FiniteSets, TLC

VARIABLES
    \* HandFaceProximity fields
    nearStreak, wasNear,
    \* what the last HandFaceProximity.update() returned: "none" or a variant
    proxRet,
    \* history of the proximity detector, kept for the properties:
    \* consecutive near frames fed since the last reset or not-near frame,
    \* and whether acknowledge() was called since the latch was last cleared
    proxRun, proxAcked,
    \* how update() classified the last observation it was given:
    \* "degenerate", "far", "near" (face size >= minFaceSize), "near-small"
    proxFrame,
    \* PostureDeviation fields: the three MovingAverage windows, streak,
    \* latch and last score
    ratioAvg, headDeltaAvg, zAvg, badStreak, wasBad, lastScore,
    \* what the last PostureDeviation.update() returned, and its history
    postRet, postRun, postAcked,
    \* "invalid" (no triangle), "ok" or "bad" for the last observation
    postFrame,
    \* the reference pose update() is given (currentReference of the app)
    currentReference,
    \* the clock (Date.now())
    now,
    \* AlertEngine fields
    cooldownMs, lastAlertAtMs, audioCtx,
    \* whether the showToast callback the engine was constructed with throws
    toastFails,
    \* the page: the flash class on document.body and the pending
    \* class-removal timeouts
    bodyClass, flashTimers,
    \* beep() invocations suspended at `await resume()`
    beepPending,
    \* the last trigger() call: its arguments and outcome
    \* ("true", "false", "threw"; "none" before any call)
    trigVariant, trigReason, trigRet,
    \* what the last step requested from the collaborators
    flashOut, toastOut, beepOut, toneOut,
    \* history of the engine: when the last alert fired (-1: none so far)
    \* and the variant it was fired with
    firedAt, firedVariant,
    \* history of the frame orchestration: the detector whose event was
    \* offered to the dispatcher in the last frame ("none": no trigger()
    \* call), the number of trigger() calls of that frame that returned
    \* true, the frames processed and the alerts fired so far
    offered, frameFires, frameCount, firedCount,
    \* the observation feed: once steady, every frame is a near frame;
    \* steadyFires counts the proximity alerts fired since then
    steady, steadyFires,
    \* the app: whether the detection loop runs and whether the start/stop
    \* button is disabled
    detectionLoopRunning, startBtnDisabled,
    \* the capture module: the mode flag and the buffer of triangles
    isCapturing, captureBuffer,
    \* where captureReferencePose() stands ("idle", "collecting", "saving")
    \* and the reference it is saving
    capturePhase, pendingReference,
    \* the record in the reference store
    savedReference,
    \* how the last capture session ended, with the frame count it reported
    captureRet,
    \* history of the capture session: whether it called saveReference, and
    \* the in-memory and the stored reference when it started
    saveAttempted, sessionStart,
    \* the observation the last direct call of a detector's update() was given
    lastResults,
    \* a second PostureDeviation, fed the same frames with other depths
    twin,
    \* a MovingAverage on its own: its window, the samples added since the
    \* last reset() and what the last add() returned
    window, added, addRet,
    \* the reference store on its own: the object store of the database
    \* (key to record), what the last call returned, and the poses saved
    \* with success since the database was last deleted
    referenceDb, storeRet, written,
    \* calculateTriangleRatio on its own: the triangle it was last given, the
    \* value it returned, and the triangle and value this one was scaled from
    triangle, triangleRatio, scaledFrom,
    \* a Detector on its own: its fields, what the last call did, and
    \* whether each of the last processFrame() calls that returned sent its
    \* frame to the model
    detector, detRet, recentSends,
    \* the detection loop: the id of the animation-frame request made last
    \* (0: null), the processNextFrame closures created by startDetection
    \* so far, and the id the next requestAnimationFrame() returns
    animationFrameId, chains, nextRequestId,
    \* the app under overlapping handlers: whether the capture button is
    \* disabled; the captureReferencePose() calls made so far, each with its
    \* position, the progress it has shown and the triangles of the
    \* observations received while it was collecting; where the clear-data
    \* handler stands; and whether a clear has completed with no capture
    \* session started since
    captureBtnDisabled, sessions, clearPc, clearedSince,
    \* which operation ran last
    lastOp

proxVars == <<nearStreak, wasNear, proxRet, proxRun, proxAcked, proxFrame>>
postVars == <<ratioAvg, headDeltaAvg, zAvg, badStreak, wasBad, lastScore,
              postRet, postRun, postAcked, postFrame>>
engCfgVars == <<cooldownMs, toastFails>>
engVars == <<lastAlertAtMs, audioCtx, bodyClass, flashTimers, beepPending,
             trigVariant, trigReason, trigRet,
             flashOut, toastOut, beepOut, toneOut, firedAt, firedVariant>>
frameVars == <<offered, frameFires, frameCount, firedCount, steady, steadyFires>>
capVars == <<detectionLoopRunning, startBtnDisabled, isCapturing, captureBuffer,
             capturePhase, pendingReference, savedReference, captureRet,
             saveAttempted, sessionStart>>
windowVars == <<window, added, addRet>>
triVars == <<triangle, triangleRatio, scaledFrom>>
storeVars == <<referenceDb, storeRet, written>>
detVars == <<detector, detRet, recentSends>>
loopVars == <<animationFrameId, chains, nextRequestId>>
sessVars == <<captureBtnDisabled, sessions, clearPc, clearedSince>>
moreVars == <<detVars, loopVars, sessVars>>
auxVars == <<lastResults, twin, windowVars, storeVars, triVars, moreVars>>
vars == <<proxVars, postVars, currentReference, now, engCfgVars, engVars,
          frameVars, capVars, auxVars, lastOp>>

----------------------------------------------------------------------------
(* Bounds of the model *)

\* a streak is not driven beyond this many consecutive frames
MaxStreak == 5

\* beep() invocations left suspended at the same time
MaxPending == 1

\* a cooldown passed to the constructor as opts.cooldownMs
CooldownOverride == 3

----------------------------------------------------------------------------
(* Arithmetic helpers *)

Min2(a, b) == IF a <= b THEN a ELSE b
Max2(a, b) == IF a >= b THEN a ELSE b
Abs(a) == IF a < 0 THEN -a ELSE a

\* one whole unit of a normalized coordinate, in hundredths
Scale == 10 * 10

\* Number.POSITIVE_INFINITY for squared distances: above every finite one
Infinity == Scale * Scale * Scale

\* the value of a number that is not a number
NaN == 0 - Infinity

----------------------------------------------------------------------------
(* Landmarks and observations *)

\* a landmark without depth
P(px, py) == [x |-> px, y |-> py, hasZ |-> FALSE, z |-> 0]
\* a landmark with depth
PZ(px, py, pz) == [x |-> px, y |-> py, hasZ |-> TRUE, z |-> pz]

\* one observation (the Results of one processed frame)
Obs(pose, lh, rh, face) ==
    [poseLandmarks |-> pose, leftHandLandmarks |-> lh,
     rightHandLandmarks |-> rh, faceLandmarks |-> face]

----------------------------------------------------------------------------
(* HandFaceProximity *)

framesToTrigger == 3
normalizedDistanceThreshold == 18
minFaceSize == 8
zDistanceThreshold == 12

RECURSIVE FoldBox(_, _, _)
FoldBox(points, i, r) ==
    IF i > Len(points) THEN r
    ELSE FoldBox(points, i + 1,
                 [minX |-> Min2(r.minX, points[i].x),
                  minY |-> Min2(r.minY, points[i].y),
                  maxX |-> Max2(r.maxX, points[i].x),
                  maxY |-> Max2(r.maxY, points[i].y)])

\* the accumulators start at 1, 1, 0, 0 as in the code
computeBoundingBox(points) ==
    FoldBox(points, 1, [minX |-> Scale, minY |-> Scale, maxX |-> 0, maxY |-> 0])

\* the square of distancePointToRect
distancePointToRectSq(p, r) ==
    LET dx == IF p.x < r.minX THEN r.minX - p.x
              ELSE IF p.x > r.maxX THEN p.x - r.maxX ELSE 0
        dy == IF p.y < r.minY THEN r.minY - p.y
              ELSE IF p.y > r.maxY THEN p.y - r.maxY ELSE 0
    IN dx * dx + dy * dy

RECURSIVE FoldMinDist(_, _, _, _)
FoldMinDist(points, rect, i, min) ==
    IF i > Len(points) THEN min
    ELSE LET d == distancePointToRectSq(points[i], rect)
         IN FoldMinDist(points, rect, i + 1, IF d < min THEN d ELSE min)

\* the square of minDistanceToRect
minDistanceToRectSq(points, rect) == FoldMinDist(points, rect, 1, Infinity)

RECURSIVE FoldZ(_, _, _)
FoldZ(points, i, acc) ==
    IF i > Len(points) THEN acc
    ELSE FoldZ(points, i + 1,
               IF points[i].hasZ
               THEN [sum |-> acc.sum + points[i].z, count |-> acc.count + 1]
               ELSE acc)

\* meanZ as the fraction sum / count; count = 0 stands for null
meanZ(points) == FoldZ(points, 1, [sum |-> 0, count |-> 0])

\* a / b <= c / d for fractions with positive denominators
FracLeq(a, c) == a.sum * c.count <= c.sum * a.count

\* Math.min(leftZ ?? Infinity, rightZ ?? Infinity); count = 0 stands for Infinity
handZOf(leftZ, rightZ) ==
    IF leftZ.count = 0 THEN rightZ
    ELSE IF rightZ.count = 0 THEN leftZ
    ELSE IF FracLeq(leftZ, rightZ) THEN leftZ ELSE rightZ

\* the depth gate failing when a depth is missing
zOkOf_NeedsDepth(faceZ, handZ) ==
    /\ faceZ.count # 0 /\ handZ.count # 0
    /\ Scale * Abs(handZ.sum * faceZ.count - faceZ.sum * handZ.count)
            <= zDistanceThreshold * Scale * handZ.count * faceZ.count

\* the depth gate zOk
zOkOf(faceZ, handZ) ==
    IF faceZ.count = 0 \/ handZ.count = 0 THEN TRUE
    ELSE Scale * Abs(handZ.sum * faceZ.count - faceZ.sum * handZ.count)
            <= zDistanceThreshold * Scale * handZ.count * faceZ.count

\* the early returns of update(): no face, no hand, or a face of size 0
ProxDegenerate(results) ==
    LET face == results.faceLandmarks
        rect == computeBoundingBox(face)
    IN \/ Len(face) = 0
       \/ Len(results.leftHandLandmarks) = 0 /\ Len(results.rightHandLandmarks) = 0
       \/ Max2(rect.maxX - rect.minX, rect.maxY - rect.minY) <= 0

faceSizeOf(results) ==
    LET rect == computeBoundingBox(results.faceLandmarks)
    IN Max2(rect.maxX - rect.minX, rect.maxY - rect.minY)

\* isNear of update(), for an observation that passed the early returns
isNearOf(results) ==
    LET face == results.faceLandmarks
        leftHand == results.leftHandLandmarks
        rightHand == results.rightHandLandmarks
        faceRect == computeBoundingBox(face)
        faceSize == faceSizeOf(results)
        leftDist == IF Len(leftHand) > 0
                    THEN minDistanceToRectSq(leftHand, faceRect) ELSE Infinity
        rightDist == IF Len(rightHand) > 0
                     THEN minDistanceToRectSq(rightHand, faceRect) ELSE Infinity
        dist == Min2(leftDist, rightDist)
        handZ == handZOf(meanZ(leftHand), meanZ(rightHand))
        \* dist / faceSize <= threshold, on the squares
        within == Scale * Scale * dist
                    <= normalizedDistanceThreshold * normalizedDistanceThreshold
                       * faceSize * faceSize
    IN within /\ zOkOf(meanZ(face), handZ)

\* reset() clearing the streak only
ProxResetState_KeepLatch == [nearStreak |-> 0, wasNear |-> wasNear]

\* HandFaceProximity.reset()
ProxResetState == [nearStreak |-> 0, wasNear |-> FALSE]

\* the variant with a face of exactly minFaceSize counted as small
proximityVariant_Inclusive(faceSize) ==
    IF faceSize <= minFaceSize THEN "low-confidence" ELSE "normal"

\* the variant of a proximity event: isLowConfidence of update()
proximityVariant(faceSize) ==
    IF faceSize < minFaceSize THEN "low-confidence" ELSE "normal"

\* acknowledge() leaving the latch as it was
ProxAckState_NoLatch(s) == s

\* HandFaceProximity.acknowledge()
ProxAckState(s) == [s EXCEPT !.wasNear = TRUE]

\* update() with the trigger comparison off by one (streak <= framesToTrigger)
ProxUpdate_LateTrigger(s, results) ==
    IF ProxDegenerate(results) \/ ~isNearOf(results)
    THEN [st |-> ProxResetState, ret |-> "none"]
    ELSE LET st == [s EXCEPT !.nearStreak = s.nearStreak + 1]
         IN IF st.nearStreak <= framesToTrigger \/ s.wasNear
            THEN [st |-> st, ret |-> "none"]
            ELSE [st |-> st,
                  ret |-> IF faceSizeOf(results) < minFaceSize
                          THEN "low-confidence" ELSE "normal"]

\* update() emitting only on the frame the streak reaches the trigger count
ProxUpdate_EdgeOnly(s, results) ==
    IF ProxDegenerate(results) \/ ~isNearOf(results)
    THEN [st |-> ProxResetState, ret |-> "none"]
    ELSE LET st == [s EXCEPT !.nearStreak = s.nearStreak + 1]
         IN IF st.nearStreak # framesToTrigger \/ s.wasNear
            THEN [st |-> st, ret |-> "none"]
            ELSE [st |-> st,
                  ret |-> IF faceSizeOf(results) < minFaceSize
                          THEN "low-confidence" ELSE "normal"]

\* HandFaceProximity.update(): the new fields and the returned value
ProxUpdate(s, results) ==
    IF ProxDegenerate(results)
    THEN [st |-> ProxResetState, ret |-> "none"]
    ELSE IF ~isNearOf(results)
    THEN [st |-> [nearStreak |-> 0, wasNear |-> FALSE], ret |-> "none"]
    ELSE LET streak == s.nearStreak + 1
             st == [s EXCEPT !.nearStreak = streak]
         IN IF streak < framesToTrigger THEN [st |-> st, ret |-> "none"]
            ELSE IF s.wasNear THEN [st |-> st, ret |-> "none"]
            ELSE [st |-> st, ret |-> proximityVariant(faceSizeOf(results))]

----------------------------------------------------------------------------
(* Geometry of the shoulder triangle *)

\* the largest r in lo..hi with r * r <= n, by bisection
SqrtIn[n \in Nat, lo \in Nat, hi \in Nat] ==
    IF lo >= hi THEN lo
    ELSE LET mid == (lo + hi + 1) \div 2
         IN IF mid * mid <= n THEN SqrtIn[n, mid, hi] ELSE SqrtIn[n, lo, mid - 1]

\* Math.sqrt on the squares that occur, rounded down; with q > 1 the root
\* is held in q-ths of a hundredth: Sqrt(n, q) is the root of n times q
Sqrt(n, q) == SqrtIn[n * q * q, 0, 3 * Scale * q]

\* the ratio without the zero test: 0 / 0 is NaN and w / 0 is Infinity
TriangleRatioAt_Unguarded(nose, leftShoulder, rightShoulder, q) ==
    LET wx == rightShoulder.x - leftShoulder.x
        wy == rightShoulder.y - leftShoulder.y
        shoulderWidth == Sqrt(wx * wx + wy * wy, q)
        mx2 == 2 * nose.x - (leftShoulder.x + rightShoulder.x)
        my2 == 2 * nose.y - (leftShoulder.y + rightShoulder.y)
        midpointToNose2 == Sqrt(mx2 * mx2 + my2 * my2, q)
    IN IF mx2 = 0 /\ my2 = 0
       THEN IF shoulderWidth = 0 THEN NaN ELSE Infinity
       ELSE (2 * 10 * Scale * shoulderWidth) \div midpointToNose2

\* the ratio with the division guarded by a small addend in place of the
\* zero test
TriangleRatioAt_Epsilon(nose, leftShoulder, rightShoulder, q) ==
    LET wx == rightShoulder.x - leftShoulder.x
        wy == rightShoulder.y - leftShoulder.y
        shoulderWidth == Sqrt(wx * wx + wy * wy, q)
        mx2 == 2 * nose.x - (leftShoulder.x + rightShoulder.x)
        my2 == 2 * nose.y - (leftShoulder.y + rightShoulder.y)
        midpointToNose2 == Sqrt(mx2 * mx2 + my2 * my2, q)
    IN (2 * 10 * Scale * shoulderWidth) \div (midpointToNose2 + 2 * q)

\* calculateTriangleRatio, in thousandths, with the square roots held in
\* q-ths of a hundredth.  The midpoint is kept doubled, so the ratio is
\* 2 * shoulderWidth / (2 * midpointToNose).
TriangleRatioAt(nose, leftShoulder, rightShoulder, q) ==
    LET wx == rightShoulder.x - leftShoulder.x
        wy == rightShoulder.y - leftShoulder.y
        shoulderWidth == Sqrt(wx * wx + wy * wy, q)
        mx2 == 2 * nose.x - (leftShoulder.x + rightShoulder.x)
        my2 == 2 * nose.y - (leftShoulder.y + rightShoulder.y)
        midpointToNose2 == Sqrt(mx2 * mx2 + my2 * my2, q)
    IN IF mx2 = 0 /\ my2 = 0 THEN 0
       ELSE (2 * 10 * Scale * shoulderWidth) \div midpointToNose2

\* calculateTriangleRatio as the detectors and the calibration use it: the
\* roots in hundredths
calculateTriangleRatio(nose, leftShoulder, rightShoulder) ==
    TriangleRatioAt(nose, leftShoulder, rightShoulder, 1)

----------------------------------------------------------------------------
(* PostureDeviation *)

LANDMARK_NOSE == 0
LANDMARK_LEFT_SHOULDER == 11
LANDMARK_RIGHT_SHOULDER == 12

postureFramesToTrigger == 4
ratioDropThreshold == 7
headTiltLowConfidenceThreshold == 8
zWeight == 3
zDeviationThreshold == 5

\* the moving-average window the detector is constructed with
windowSize == 2

\* poseLandmarks[i], an array indexed from 0 held as a sequence
HasLandmark(pose, i) == i + 1 <= Len(pose)
Landmark(pose, i) == pose[i + 1]

\* extractTriangle: null (ok = FALSE) when one of the three is missing
extractTriangle(pose) ==
    IF /\ HasLandmark(pose, LANDMARK_NOSE)
       /\ HasLandmark(pose, LANDMARK_LEFT_SHOULDER)
       /\ HasLandmark(pose, LANDMARK_RIGHT_SHOULDER)
    THEN [ok |-> TRUE,
          nose |-> Landmark(pose, LANDMARK_NOSE),
          leftShoulder |-> Landmark(pose, LANDMARK_LEFT_SHOULDER),
          rightShoulder |-> Landmark(pose, LANDMARK_RIGHT_SHOULDER)]
    ELSE [ok |-> FALSE, nose |-> P(0, 0), leftShoulder |-> P(0, 0),
          rightShoulder |-> P(0, 0)]

\* noseToShoulderMidpointDeltaY, in thousandths
noseToShoulderMidpointDeltaY(nose, left, right) ==
    5 * (left.y + right.y) - 10 * nose.y

\* calculateAverageZ as [has, z], z in thousandths
calculateAverageZ(tri) ==
    LET m == meanZ(<<tri.nose, tri.leftShoulder, tri.rightShoulder>>)
    IN IF m.count = 0 THEN [has |-> FALSE, z |-> 0]
       ELSE [has |-> TRUE, z |-> (10 * m.sum) \div m.count]

\* MovingAverage: a fresh or reset window
MovingAverageEmpty == [values |-> <<>>, sum |-> 0]

\* add() that evicts the oldest sample and leaves it in the sum
MovingAverageAdd_StaleSum(ma, value) ==
    LET pushed == Append(ma.values, value)
    IN [values |-> IF Len(pushed) > windowSize THEN Tail(pushed) ELSE pushed,
        sum |-> ma.sum + value]

\* MovingAverage.add(): the window afterwards
MovingAverageAdd(ma, value) ==
    LET pushed == Append(ma.values, value)
        total == ma.sum + value
    IN IF Len(pushed) > windowSize
       THEN [values |-> Tail(pushed), sum |-> total - Head(pushed)]
       ELSE [values |-> pushed, sum |-> total]

\* what MovingAverage.add() returns
MovingAverageMean(ma) == ma.sum \div Len(ma.values)

\* Math.round
Round(n, unit) == (2 * n + unit) \div (2 * unit)

\* calculatePostureScore; ratios, depths and headTiltConfidence in
\* thousandths, the components computed in thousandths of a point
calculatePostureScore(liveRatio, refRatio, liveZ, refZ, headTiltConfidence) ==
    LET milli == 10 * Scale
        full == Scale * milli
        ratioIsNaN == refRatio = 0
        ratioComponent ==
            IF ratioIsNaN THEN NaN
            ELSE Max2(0, full - (2 * full * Max2(0, refRatio - liveRatio)) \div refRatio)
        zDiff == refZ.z - liveZ.z
        zDen == IF refZ.z = 0 THEN milli ELSE Abs(refZ.z)
        zComponent ==
            IF liveZ.has /\ refZ.has
            THEN Max2(0, full - ((full * Scale * Max2(0, zDiff)) \div zDeviationThreshold)
                                \div zDen)
            ELSE full
        blend == (ratioComponent * (10 - zWeight)) \div 10
                    + (((zComponent \div 10) * zWeight) * headTiltConfidence) \div milli
        overall == Round(blend, milli)
    IN [overall |-> IF ratioIsNaN THEN NaN ELSE Max2(0, Min2(Scale, overall)),
        ratioComponent |-> IF ratioIsNaN THEN NaN ELSE Round(ratioComponent, milli),
        zComponent |-> Round(zComponent, milli),
        headTiltConfidence |-> Round(headTiltConfidence, 10),
        isNull |-> FALSE]

\* getLastScore() before any valid frame
NoScore == [overall |-> NaN, ratioComponent |-> NaN, zComponent |-> NaN,
            headTiltConfidence |-> NaN, isNull |-> TRUE]

\* reset() that leaves the smoothing windows as they are
PostureResetState_KeepWindows ==
    [ratioAvg |-> ratioAvg, headDeltaAvg |-> headDeltaAvg, zAvg |-> zAvg,
     badStreak |-> 0, wasBad |-> FALSE,
     lastScore |-> [overall |-> NaN, ratioComponent |-> NaN, zComponent |-> NaN,
                    headTiltConfidence |-> NaN, isNull |-> TRUE]]

\* PostureDeviation.reset()
PostureResetState ==
    [ratioAvg |-> MovingAverageEmpty, headDeltaAvg |-> MovingAverageEmpty,
     zAvg |-> MovingAverageEmpty, badStreak |-> 0, wasBad |-> FALSE,
     lastScore |-> NoScore]

\* acknowledge() that leaves the latch as it was
PostureAckState_NoLatch(s) == s

\* PostureDeviation.acknowledge()
PostureAckState(s) == [s EXCEPT !.wasBad = TRUE]

\* the deviation test with the drop threshold left out
isBadOf_NoThreshold(liveRatio, refRatio) ==
    liveRatio > 0 /\ liveRatio < refRatio

\* isBad of update(): the smoothed ratio is positive and below the
\* reference ratio less the drop threshold
isBadOf(liveRatio, refRatio) ==
    liveRatio > 0 /\ Scale * liveRatio < refRatio * (Scale - ratioDropThreshold)

\* the head-tilt guard dividing by every reference delta but 0
headDeltaRatioOf_AnySign(liveHeadDelta, refHeadDelta) ==
    IF refHeadDelta # 0
    THEN (10 * Scale * liveHeadDelta) \div refHeadDelta
    ELSE 10 * Scale

\* headDeltaRatio of update(), in thousandths: 1 when the reference delta
\* is not positive
headDeltaRatioOf(liveHeadDelta, refHeadDelta) ==
    IF refHeadDelta > 0
    THEN (10 * Scale * liveHeadDelta) \div refHeadDelta
    ELSE 10 * Scale

\* the frame-local values of PostureDeviation.update() for a valid triangle
PostureFrame(s, tri, reference) ==
    LET ratioWin == MovingAverageAdd(s.ratioAvg,
                        calculateTriangleRatio(tri.nose, tri.leftShoulder, tri.rightShoulder))
        liveRatio == MovingAverageMean(ratioWin)
        headWin == MovingAverageAdd(s.headDeltaAvg,
                        noseToShoulderMidpointDeltaY(tri.nose, tri.leftShoulder, tri.rightShoulder))
        liveHeadDelta == MovingAverageMean(headWin)
        liveZInstant == calculateAverageZ(tri)
        zWin == IF liveZInstant.has THEN MovingAverageAdd(s.zAvg, liveZInstant.z)
                ELSE s.zAvg
        liveZ == IF liveZInstant.has THEN [has |-> TRUE, z |-> MovingAverageMean(zWin)]
                 ELSE [has |-> FALSE, z |-> 0]
        refRatio == reference.ratio
        isBad == isBadOf(liveRatio, refRatio)
        refZ == calculateAverageZ(reference)
        refHeadDelta == noseToShoulderMidpointDeltaY(reference.nose,
                            reference.leftShoulder, reference.rightShoulder)
        \* headDeltaRatio and headTiltConfidence in thousandths
        headDeltaRatio == headDeltaRatioOf(liveHeadDelta, refHeadDelta)
        headTiltConfidence ==
            Min2(10 * Scale, (10 * headDeltaRatio) \div headTiltLowConfidenceThreshold)
    IN [ratioAvg |-> ratioWin, headDeltaAvg |-> headWin, zAvg |-> zWin,
        isBad |-> isBad,
        isLowConfidence |-> headDeltaRatio < headTiltLowConfidenceThreshold * Scale,
        score |-> calculatePostureScore(liveRatio, refRatio, liveZ, refZ,
                                        headTiltConfidence)]

\* update() gating the event on the composite score as well
PostureUpdate_ScoreGated(s, results, reference) ==
    LET pose == results.poseLandmarks
        tri == extractTriangle(pose)
    IN IF Len(pose) = 0 \/ ~tri.ok
       THEN [st |-> PostureResetState, ret |-> "none"]
       ELSE LET f == PostureFrame(s, tri, reference)
                base == [s EXCEPT !.ratioAvg = f.ratioAvg,
                                  !.headDeltaAvg = f.headDeltaAvg,
                                  !.zAvg = f.zAvg,
                                  !.lastScore = f.score]
            IN IF ~f.isBad \/ f.score.zComponent >= Scale
               THEN [st |-> [base EXCEPT !.badStreak = 0, !.wasBad = FALSE],
                     ret |-> "none"]
               ELSE LET st == [base EXCEPT !.badStreak = s.badStreak + 1]
                    IN IF st.badStreak < postureFramesToTrigger
                       THEN [st |-> st, ret |-> "none"]
                       ELSE IF s.wasBad THEN [st |-> st, ret |-> "none"]
                       ELSE [st |-> st,
                             ret |-> IF f.isLowConfidence
                                     THEN "low-confidence" ELSE "normal"]

\* PostureDeviation.update(): the new fields and the returned value
PostureUpdate(s, results, reference) ==
    LET pose == results.poseLandmarks
        tri == extractTriangle(pose)
    IN IF Len(pose) = 0 \/ ~tri.ok
       THEN [st |-> PostureResetState, ret |-> "none"]
       ELSE LET f == PostureFrame(s, tri, reference)
                base == [s EXCEPT !.ratioAvg = f.ratioAvg,
                                  !.headDeltaAvg = f.headDeltaAvg,
                                  !.zAvg = f.zAvg,
                                  !.lastScore = f.score]
            IN IF ~f.isBad
               THEN [st |-> [base EXCEPT !.badStreak = 0, !.wasBad = FALSE],
                     ret |-> "none"]
               ELSE LET st == [base EXCEPT !.badStreak = s.badStreak + 1]
                    IN IF st.badStreak < postureFramesToTrigger
                       THEN [st |-> st, ret |-> "none"]
                       ELSE IF s.wasBad THEN [st |-> st, ret |-> "none"]
                       ELSE [st |-> st,
                             ret |-> IF f.isLowConfidence
                                     THEN "low-confidence" ELSE "normal"]

----------------------------------------------------------------------------
(* AlertEngine *)

COOLDOWN_DEV_MS == 5000
COOLDOWN_PROD_MS == 60000
flashMs == 650

Hostnames == {"localhost", "127.0.0.1", "posturelens.app"}

\* the cooldown the constructor settles on; override < 0 stands for an
\* omitted opts.cooldownMs
ConstructorCooldown(hostname, override) ==
    LET isDevHost == hostname = "localhost" \/ hostname = "127.0.0.1"
    IN IF override >= 0 THEN override
       ELSE IF isDevHost THEN COOLDOWN_DEV_MS ELSE COOLDOWN_PROD_MS

\* the cooldown test with the time of the last alert forgotten
InCooldown_FromZero(t, last, cooldown) == t < cooldown

\* the cooldown test of trigger(): TRUE when the call is suppressed
InCooldown(t, last, cooldown) == t - last < cooldown

\* flash(): the body class and the timeouts afterwards
Flash(color, t, timers) ==
    [bodyClass |-> color,
     flashTimers |-> timers \cup {[cls |-> color, due |-> t + flashMs]}]

\* what the browser does to one beep() invocation:
\*   "no-ctor"    no AudioContext constructor: beep returns at once
\*   "ctor-throws" constructing the AudioContext throws
\*   "suspended"  the context is suspended: beep awaits resume()
\*   "osc-throws" creating or starting the oscillator throws
\*   "plays"      the tone is started
BeepEnv == {"no-ctor", "ctor-throws", "suspended", "osc-throws", "plays"}

\* beep() without its try/catch: a failure of the constructor or of the
\* oscillator escapes to the caller
Beep_Unguarded(ctx, env) ==
    IF env = "no-ctor"
    THEN [audioCtx |-> ctx, pending |-> 0, tone |-> FALSE, threw |-> FALSE]
    ELSE IF env = "suspended"
    THEN [audioCtx |-> "created", pending |-> 1, tone |-> FALSE, threw |-> FALSE]
    ELSE IF env = "plays"
    THEN [audioCtx |-> "created", pending |-> 0, tone |-> TRUE, threw |-> FALSE]
    ELSE [audioCtx |-> ctx, pending |-> 0, tone |-> FALSE, threw |-> TRUE]

\* beep() up to its first await: the audio context, whether the invocation
\* is left suspended, whether a tone started, and whether an error escaped
Beep(ctx, env) ==
    IF env = "no-ctor"
    THEN [audioCtx |-> ctx, pending |-> 0, tone |-> FALSE, threw |-> FALSE]
    ELSE IF ctx = "null" /\ env = "ctor-throws"
    THEN [audioCtx |-> "null", pending |-> 0, tone |-> FALSE, threw |-> FALSE]
    ELSE IF env = "suspended"
    THEN [audioCtx |-> "created", pending |-> 1, tone |-> FALSE, threw |-> FALSE]
    ELSE IF env = "plays"
    THEN [audioCtx |-> "created", pending |-> 0, tone |-> TRUE, threw |-> FALSE]
    ELSE [audioCtx |-> "created", pending |-> 0, tone |-> FALSE, threw |-> FALSE]

\* the engine's state as one record
EngineState ==
    [lastAlertAtMs |-> lastAlertAtMs, audioCtx |-> audioCtx,
     bodyClass |-> bodyClass, flashTimers |-> flashTimers,
     beepPending |-> beepPending]

\* the normal branch of trigger(), the alert time already written to e1:
\* red flash, toast, tone
TriggerNormal(e1, t, reason, env) ==
    LET f == Flash("red", t, e1.flashTimers)
        e2 == [e1 EXCEPT !.bodyClass = f.bodyClass,
                         !.flashTimers = f.flashTimers]
    IN IF toastFails
       THEN [st |-> e2, ret |-> "threw", flash |-> "red",
             toast |-> reason, beep |-> FALSE, tone |-> FALSE]
       ELSE LET b == Beep(e2.audioCtx, env)
            IN [st |-> [e2 EXCEPT !.audioCtx = b.audioCtx,
                                  !.beepPending = @ + b.pending],
                ret |-> IF b.threw THEN "threw" ELSE "true",
                flash |-> "red", toast |-> reason,
                beep |-> TRUE, tone |-> b.tone]

\* the low-confidence branch of trigger(): yellow flash only
TriggerLowConfidence(e1, t) ==
    LET f == Flash("yellow", t, e1.flashTimers)
    IN [st |-> [e1 EXCEPT !.bodyClass = f.bodyClass,
                          !.flashTimers = f.flashTimers],
        ret |-> "true", flash |-> "yellow", toast |-> "none",
        beep |-> FALSE, tone |-> FALSE]

\* trigger() writing the alert time before the cooldown test
Trigger_StampsFirst(e, t, variant, reason, env) ==
    LET e1 == [e EXCEPT !.lastAlertAtMs = t]
    IN IF InCooldown(t, e.lastAlertAtMs, cooldownMs)
       THEN [st |-> e1, ret |-> "false", flash |-> "none", toast |-> "none",
             beep |-> FALSE, tone |-> FALSE]
       ELSE IF variant = "normal" THEN TriggerNormal(e1, t, reason, env)
       ELSE TriggerLowConfidence(e1, t)

\* trigger() taking the normal branch for every variant
Trigger_IgnoresVariant(e, t, variant, reason, env) ==
    IF InCooldown(t, e.lastAlertAtMs, cooldownMs)
    THEN [st |-> e, ret |-> "false", flash |-> "none", toast |-> "none",
          beep |-> FALSE, tone |-> FALSE]
    ELSE TriggerNormal([e EXCEPT !.lastAlertAtMs = t], t, reason, env)

\* trigger() recording the alert time for normal alerts only
Trigger_NormalStampsOnly(e, t, variant, reason, env) ==
    IF InCooldown(t, e.lastAlertAtMs, cooldownMs)
    THEN [st |-> e, ret |-> "false", flash |-> "none", toast |-> "none",
          beep |-> FALSE, tone |-> FALSE]
    ELSE IF variant = "normal"
         THEN TriggerNormal([e EXCEPT !.lastAlertAtMs = t], t, reason, env)
         ELSE TriggerLowConfidence(e, t)

\* trigger(variant, reason) at clock value t: the state afterwards, the
\* outcome and what was requested from the collaborators
Trigger(e, t, variant, reason, env) ==
    IF InCooldown(t, e.lastAlertAtMs, cooldownMs)
    THEN [st |-> e, ret |-> "false", flash |-> "none", toast |-> "none",
          beep |-> FALSE, tone |-> FALSE]
    ELSE LET e1 == [e EXCEPT !.lastAlertAtMs = t]
         IN IF variant = "normal" THEN TriggerNormal(e1, t, reason, env)
            ELSE TriggerLowConfidence(e1, t)

----------------------------------------------------------------------------
(* The observations fed to the model *)

\* the face: a 20 x 20 rectangle, with and without depth
FaceNormal == <<P(40, 30), P(60, 50)>>
FaceNormalZ == <<PZ(40, 30, 0), PZ(60, 50, 2)>>
\* a face of size exactly minFaceSize, and one below it
FaceMin == <<P(46, 46), P(54, 54)>>
FaceSmall == <<P(47, 47), P(53, 53)>>
\* a 50 x 50 face, for the hand at exactly the distance threshold
FaceLarge == <<P(20, 20), P(70, 70)>>
\* a single landmark: a rectangle of size 0
FacePoint == <<P(50, 50)>>

HandNear == <<P(62, 40), P(80, 60)>>
HandNearZ == <<PZ(62, 40, -5), PZ(80, 60, -7)>>
\* depth 20 away from the face's: fails the depth gate
HandNearDeep == <<PZ(62, 40, -20), PZ(80, 60, -20)>>
\* depth 0.12 and 0.13 away from the mean depth 0.01 of FaceNormalZ
HandNearAtDepth == <<PZ(62, 40, 13)>>
HandNearPastDepth == <<PZ(62, 40, 14)>>
HandFar == <<P(90, 40), P(95, 60)>>
\* away from the face and much nearer to the camera than the face is
HandFarDeep == <<PZ(90, 40, -40), PZ(95, 60, -40)>>
\* 9 from the 50 x 50 face: normalized distance exactly 0.18
HandAtThreshold == <<P(79, 40)>>
\* 10 from the 50 x 50 face: normalized distance 0.20
HandPastThreshold == <<P(80, 40)>>
HandInside == <<P(50, 50)>>

\* [leftHand, rightHand, face] of the observations
HandFaceInputs ==
    { <<HandNear, <<>>, FaceNormal>>,
      <<<<>>, HandNear, FaceNormal>>,
      <<HandFar, HandNear, FaceNormal>>,
      <<HandNearZ, <<>>, FaceNormalZ>>,
      <<HandNearDeep, <<>>, FaceNormalZ>>,
      <<HandNearDeep, <<>>, FaceNormal>>,
      <<HandNearDeep, HandFar, FaceNormalZ>>,
      <<HandNearZ, HandFarDeep, FaceNormalZ>>,
      <<HandFarDeep, HandNearZ, FaceNormalZ>>,
      <<HandNearAtDepth, <<>>, FaceNormalZ>>,
      <<HandNearPastDepth, <<>>, FaceNormalZ>>,
      <<HandFar, <<>>, FaceNormal>>,
      <<HandFar, HandFar, FaceNormalZ>>,
      <<HandAtThreshold, <<>>, FaceLarge>>,
      <<HandPastThreshold, <<>>, FaceLarge>>,
      <<HandInside, <<>>, FaceMin>>,
      <<HandInside, <<>>, FaceSmall>>,
      <<<<>>, <<>>, FaceNormal>>,
      <<HandNear, <<>>, <<>>>>,
      <<HandInside, <<>>, FacePoint>> }

\* a pose array holding nose, left and right shoulder at 0, 11 and 12
Pose13(nose, left, right) ==
    [i \in 1..13 |-> IF i = 1 THEN nose
                     ELSE IF i = 12 THEN left
                     ELSE IF i = 13 THEN right
                     ELSE P(50, 50)]

\* ratio 1.0: shoulders 40 apart, nose 40 above their midpoint
PoseUpright == Pose13(PZ(50, 10, -10), PZ(30, 50, -10), PZ(70, 50, -10))
\* ratio 0.90 and 0.95: shoulders 36 and 38 apart
PoseRounded == Pose13(PZ(50, 10, -14), PZ(32, 50, -14), PZ(68, 50, -14))
PoseSlight == Pose13(P(50, 10), P(31, 50), P(69, 50))
\* ratio 0.87 with the nose dropped to 30 above the midpoint (0.75 of 40)
PoseHeadDown == Pose13(P(50, 20), P(37, 50), P(63, 50))
\* the nose on the shoulder midpoint: ratio 0
PoseFlat == Pose13(P(50, 50), P(30, 50), P(70, 50))
\* ratio 0.80 with the nose 20 below the shoulder line
PoseNoseBelow == Pose13(P(50, 70), P(42, 50), P(58, 50))
\* the array ends before the shoulders
PoseShort == [i \in 1..5 |-> P(50, 10)]

PoseInputs == {PoseUpright, PoseRounded, PoseSlight, PoseHeadDown, PoseFlat,
               PoseNoseBelow, PoseShort, <<>>}

\* observations for the proximity detector alone and the posture detector
\* alone: the other regions are not read
HandFaceObservations == { Obs(<<>>, h[1], h[2], h[3]) : h \in HandFaceInputs }
PoseObservations == { Obs(pose, <<>>, <<>>, <<>>) : pose \in PoseInputs }

\* a reference pose as captureReferencePose builds it from averaged landmarks
MakeReference(nose, left, right) ==
    [nose |-> nose, leftShoulder |-> left, rightShoulder |-> right,
     ratio |-> calculateTriangleRatio(nose, left, right)]

NoReference == [isNull |-> TRUE]
ReferenceUpright ==
    MakeReference(PZ(50, 10, -10), PZ(30, 50, -10), PZ(70, 50, -10))
    @@ [isNull |-> FALSE]
\* captured from a pose with the nose on the shoulder midpoint: ratio 0
ReferenceFlat ==
    MakeReference(PZ(50, 50, 0), PZ(30, 50, 0), PZ(70, 50, 0))
    @@ [isNull |-> FALSE]
\* captured with the nose 40 below the shoulder line: ratio 1.0, and a
\* negative head delta
ReferenceInverted ==
    MakeReference(PZ(50, 90, -10), PZ(30, 50, -10), PZ(70, 50, -10))
    @@ [isNull |-> FALSE]

NearKinds == {"near", "near-small"}

\* how update() classifies an observation
ProxFrameKind(results) ==
    IF ProxDegenerate(results) THEN "degenerate"
    ELSE IF ~isNearOf(results) THEN "far"
    ELSE IF faceSizeOf(results) < minFaceSize THEN "near-small"
    ELSE "near"

----------------------------------------------------------------------------
(* The state after construction *)

ProxState == [nearStreak |-> nearStreak, wasNear |-> wasNear]
PostureState ==
    [ratioAvg |-> ratioAvg, headDeltaAvg |-> headDeltaAvg, zAvg |-> zAvg,
     badStreak |-> badStreak, wasBad |-> wasBad, lastScore |-> lastScore]

InitProx ==
    /\ nearStreak = 0 /\ wasNear = FALSE
    /\ proxRet = "none" /\ proxRun = 0 /\ proxAcked = FALSE
    /\ proxFrame = "none"

InitPosture ==
    /\ ratioAvg = MovingAverageEmpty /\ headDeltaAvg = MovingAverageEmpty
    /\ zAvg = MovingAverageEmpty
    /\ badStreak = 0 /\ wasBad = FALSE /\ lastScore = NoScore
    /\ postRet = "none" /\ postRun = 0 /\ postAcked = FALSE
    /\ postFrame = "none"

InitEngine ==
    /\ lastAlertAtMs = 0 /\ audioCtx = "null"
    /\ bodyClass = "none" /\ flashTimers = {} /\ beepPending = 0
    /\ trigVariant = "none" /\ trigReason = "none" /\ trigRet = "none"
    /\ flashOut = "none" /\ toastOut = "none"
    /\ beepOut = FALSE /\ toneOut = FALSE
    /\ firedAt = -1 /\ firedVariant = "none"

InitFrame ==
    /\ offered = "none" /\ frameFires = 0
    /\ frameCount = 0 /\ firedCount = 0
    /\ steady = FALSE /\ steadyFires = 0

\* how a capture session ended: none has, so far
NoCaptureResult == [status |-> "none", count |-> -1]

\* the app once initializeApp() has run: the detection loop is started, the
\* stored reference is loaded into currentReference, the start button is
\* enabled when there is one, and no capture session is under way
InitCapture ==
    /\ detectionLoopRunning = TRUE
    /\ startBtnDisabled = currentReference.isNull
    /\ isCapturing = FALSE /\ captureBuffer = <<>>
    /\ capturePhase = "idle" /\ pendingReference = NoReference
    /\ savedReference = currentReference
    /\ captureRet = NoCaptureResult
    /\ saveAttempted = FALSE
    /\ sessionStart = <<currentReference, currentReference>>

\* update() has not been called directly
NoObservation == Obs(<<>>, <<>>, <<>>, <<>>)

\* no call, and so no returned value, yet
NoCall == [op |-> "none", ok |-> TRUE, value |-> NoReference, has |-> FALSE]

\* no triangle given yet
NoTriangle == [nose |-> P(0, 0), leftShoulder |-> P(0, 0), rightShoulder |-> P(0, 0)]
NoScaling == [triangle |-> NoTriangle, ratio |-> NaN, k |-> 0]

\* a PostureDeviation as constructed, with what update() returned last
NewDetector == [st |-> PostureResetState, ret |-> "none"]

\* the frame decimation a Detector is constructed with
DEFAULT_FRAME_DECIMATION == 3

\* a Detector as constructed: no model, no frame counted
DetectorConstructed ==
    [holistic |-> FALSE, frameCount |-> 0,
     frameDecimation |-> DEFAULT_FRAME_DECIMATION]
NoDetectorCall == [op |-> "none", arg |-> 0, threw |-> FALSE, sent |-> FALSE]

\* the processNextFrame closure of the startDetection() call made by
\* initializeApp(): its first animation frame is requested, and no
\* stopDetection() has been called while it was alive
FirstChain == [pc |-> "scheduled", id |-> 1, stopped |-> FALSE]

\* the objects exercised on their own, as constructed and not yet called
InitAux ==
    /\ lastResults = NoObservation
    /\ twin = NewDetector
    /\ window = MovingAverageEmpty /\ added = <<>> /\ addRet = NaN
    /\ referenceDb = <<>> /\ storeRet = NoCall /\ written = <<>>
    /\ triangle = NoTriangle /\ triangleRatio = NaN /\ scaledFrom = NoScaling
    /\ detector = DetectorConstructed /\ detRet = NoDetectorCall /\ recentSends = <<>>
    /\ chains = <<FirstChain>> /\ animationFrameId = FirstChain.id
    /\ nextRequestId = FirstChain.id + 1
    /\ captureBtnDisabled = FALSE /\ sessions = <<>>
    /\ clearPc = "idle" /\ clearedSince = FALSE

\* the detectors alone: the dispatcher and the clock stay as constructed
InitDetectors ==
    /\ InitProx /\ InitPosture /\ InitEngine /\ InitFrame
    /\ currentReference \in {ReferenceUpright, ReferenceFlat, ReferenceInverted}
    /\ now = 0
    /\ cooldownMs = ConstructorCooldown("localhost", -1)
    /\ toastFails = FALSE
    /\ lastOp = "init"
    /\ InitCapture /\ InitAux

----------------------------------------------------------------------------
(* The detectors' operations, called one at a time *)

\* The two detectors are separate objects that share no field.  A behaviour
\* of the detector specifications drives one of them: whichever is called
\* first is the one called from then on.
ProxOps == {"proxUpdate", "proxAck", "proxReset"}
PostOps == {"postUpdate", "postAck", "postReset"}
DrivingProx == lastOp \in ProxOps \cup {"init"}
DrivingPosture == lastOp \in PostOps \cup {"init"}

\* no request goes to the collaborators in a step that is not the engine's
NoOutputs ==
    /\ flashOut' = "none" /\ toastOut' = "none"
    /\ beepOut' = FALSE /\ toneOut' = FALSE

\* the history of the proximity detector after update(results)
ProxHistory(results) ==
    \E kind \in {ProxFrameKind(results)} :
       /\ proxFrame' = kind
       /\ proxRun' = IF kind \in {"near", "near-small"} THEN proxRun + 1 ELSE 0
       /\ proxAcked' = IF kind \in {"near", "near-small"} THEN proxAcked ELSE FALSE

\* HandFaceProximity.update(results)
ProxUpdateStep ==
    \E results \in HandFaceObservations :
        \E r \in {ProxUpdate(ProxState, results)} :
           /\ DrivingProx
           /\ r.st.nearStreak <= MaxStreak
           /\ nearStreak' = r.st.nearStreak
           /\ wasNear' = r.st.wasNear
           /\ proxRet' = r.ret
           /\ ProxHistory(results)
           /\ lastResults' = results
           /\ lastOp' = "proxUpdate"
           /\ UNCHANGED <<postVars, currentReference, now, engCfgVars, capVars, engVars,
                          frameVars, twin, windowVars, storeVars, triVars, moreVars>>

\* HandFaceProximity.acknowledge()
ProxAcknowledge ==
    /\ DrivingProx
    /\ wasNear' = ProxAckState(ProxState).wasNear
    /\ nearStreak' = ProxAckState(ProxState).nearStreak
    /\ proxAcked' = TRUE
    /\ lastOp' = "proxAck"
    /\ UNCHANGED <<proxRet, proxRun, proxFrame, postVars, currentReference, now,
                   engCfgVars, auxVars, capVars, engVars, frameVars>>

\* HandFaceProximity.reset()
ProxResetStep ==
    /\ DrivingProx
    /\ nearStreak' = ProxResetState.nearStreak
    /\ wasNear' = ProxResetState.wasNear
    /\ proxRun' = 0 /\ proxAcked' = FALSE
    /\ lastOp' = "proxReset"
    /\ UNCHANGED <<proxRet, proxFrame, postVars, currentReference, now,
                   engCfgVars, auxVars, capVars, engVars, frameVars>>

\* how PostureDeviation.update() classifies an observation in state s
PostFrameKind(s, results, reference) ==
    LET tri == extractTriangle(results.poseLandmarks)
    IN IF Len(results.poseLandmarks) = 0 \/ ~tri.ok THEN "invalid"
       ELSE IF PostureFrame(s, tri, reference).isBad THEN "bad" ELSE "ok"

\* the history of the posture detector after update(results, reference)
PostHistory(results, reference) ==
    \E kind \in {PostFrameKind(PostureState, results, reference)} :
       /\ postFrame' = kind
       /\ postRun' = IF kind = "bad" THEN postRun + 1 ELSE 0
       /\ postAcked' = IF kind = "bad" THEN postAcked ELSE FALSE

\* the detector's fields after an operation left them as st
SetPosture(st) ==
    /\ ratioAvg' = st.ratioAvg /\ headDeltaAvg' = st.headDeltaAvg
    /\ zAvg' = st.zAvg /\ badStreak' = st.badStreak /\ wasBad' = st.wasBad
    /\ lastScore' = st.lastScore

\* PostureDeviation.update(results, reference)
PostUpdateStep ==
    \E results \in PoseObservations :
        \E r \in {PostureUpdate(PostureState, results, currentReference)} :
           /\ DrivingPosture
           /\ r.st.badStreak <= MaxStreak
           /\ SetPosture(r.st)
           /\ postRet' = r.ret
           /\ PostHistory(results, currentReference)
           /\ lastResults' = results
           /\ lastOp' = "postUpdate"
           /\ UNCHANGED <<proxVars, currentReference, now, engCfgVars, capVars, engVars,
                          frameVars, twin, windowVars, storeVars, triVars, moreVars>>

\* PostureDeviation.acknowledge()
PostAcknowledge ==
    /\ DrivingPosture
    /\ SetPosture(PostureAckState(PostureState))
    /\ postAcked' = TRUE
    /\ lastOp' = "postAck"
    /\ UNCHANGED <<postRet, postRun, postFrame, proxVars, currentReference, now,
                   engCfgVars, auxVars, capVars, engVars, frameVars>>

\* PostureDeviation.reset()
PostResetStep ==
    /\ DrivingPosture
    /\ SetPosture(PostureResetState)
    /\ postRun' = 0 /\ postAcked' = FALSE
    /\ lastOp' = "postReset"
    /\ UNCHANGED <<postRet, postFrame, proxVars, currentReference, now,
                   engCfgVars, auxVars, capVars, engVars, frameVars>>

NextProx == ProxUpdateStep \/ ProxAcknowledge \/ ProxResetStep

\* the proximity detector driven through its public methods
SpecProx == InitDetectors /\ [][NextProx]_vars

NextDetectors ==
    \/ ProxUpdateStep \/ ProxAcknowledge \/ ProxResetStep
    \/ PostUpdateStep \/ PostAcknowledge \/ PostResetStep

\* both detectors driven through their public methods
SpecDetectors == InitDetectors /\ [][NextDetectors]_vars

----------------------------------------------------------------------------
(* The alert engine driven through trigger() *)

\* the clock values the model takes: pairs of them lie one cooldown apart
\* and one millisecond less, for the override and for either default
ClockValues == { 0, 1, 3, 4, 4999, 5000, 9999, 60000, 120000 }

\* a timeout that is due runs before the page's next task
NoDueTimer == \A timer \in flashTimers : timer.due > now

Variants == {"normal", "low-confidence"}
Reasons == {"Hands near face", "Posture"}

\* what the browser may do to a beep() given the audio context so far
BeepEnvFor(ctx) ==
    IF ctx = "null" THEN BeepEnv ELSE {"suspended", "osc-throws", "plays"}

InitEngineAlone ==
    /\ InitProx /\ InitPosture /\ InitEngine /\ InitFrame
    /\ currentReference = NoReference
    /\ now \in ClockValues
    /\ \E h \in Hostnames, o \in {-1, CooldownOverride} :
           cooldownMs = ConstructorCooldown(h, o)
    /\ toastFails = FALSE
    /\ lastOp = "init"
    /\ InitCapture /\ InitAux

\* the engine's fields and the history after a trigger() call at time t
ApplyTrigger(r, t, variant, reason) ==
    /\ lastAlertAtMs' = r.st.lastAlertAtMs
    /\ audioCtx' = r.st.audioCtx
    /\ bodyClass' = r.st.bodyClass
    /\ flashTimers' = r.st.flashTimers
    /\ beepPending' = r.st.beepPending
    /\ trigVariant' = variant /\ trigReason' = reason /\ trigRet' = r.ret
    /\ flashOut' = r.flash /\ toastOut' = r.toast
    /\ beepOut' = r.beep /\ toneOut' = r.tone
    /\ firedAt' = IF r.ret = "true" THEN t ELSE firedAt
    /\ firedVariant' = IF r.ret = "true" THEN variant ELSE firedVariant

\* time passes
Tick ==
    /\ NoDueTimer
    /\ \E t \in ClockValues : t > now /\ now' = t
    /\ NoOutputs
    /\ lastOp' = "tick"
    /\ UNCHANGED <<proxVars, postVars, currentReference, engCfgVars, auxVars, capVars,
                   lastAlertAtMs, audioCtx, bodyClass, flashTimers, beepPending,
                   trigVariant, trigReason, trigRet, firedAt, firedVariant,
                   frameVars>>

\* a call of trigger(variant, reason)
TriggerStep ==
    \E variant \in Variants, reason \in Reasons, env \in BeepEnvFor(audioCtx) :
        \E r \in {Trigger(EngineState, now, variant, reason, env)} :
           /\ NoDueTimer
           /\ r.st.beepPending <= MaxPending
           /\ ApplyTrigger(r, now, variant, reason)
           /\ lastOp' = "trigger"
           /\ UNCHANGED <<proxVars, postVars, currentReference, now, engCfgVars, auxVars, capVars,
                          frameVars>>

\* the timeout set by flash() runs: the class it added is removed
FlashTimeout ==
    \E timer \in flashTimers :
        /\ timer.due <= now
        /\ bodyClass' = IF bodyClass = timer.cls THEN "none" ELSE bodyClass
        /\ flashTimers' = flashTimers \ {timer}
        /\ NoOutputs
        /\ lastOp' = "flashTimeout"
        /\ UNCHANGED <<proxVars, postVars, currentReference, now, engCfgVars, auxVars, capVars,
                       lastAlertAtMs, audioCtx, beepPending,
                       trigVariant, trigReason, trigRet, firedAt, firedVariant,
                       frameVars>>

\* a suspended beep() continues: resume() was rejected, the oscillator
\* failed, or the tone starts; every failure ends in the catch
BeepResume ==
    \E outcome \in {"rejected", "osc-throws", "plays"} :
        /\ beepPending > 0
        /\ beepPending' = beepPending - 1
        /\ toneOut' = (outcome = "plays")
        /\ flashOut' = "none" /\ toastOut' = "none" /\ beepOut' = FALSE
        /\ lastOp' = "beepResume"
        /\ UNCHANGED <<proxVars, postVars, currentReference, now, engCfgVars, auxVars, capVars,
                       lastAlertAtMs, audioCtx, bodyClass, flashTimers,
                       trigVariant, trigReason, trigRet, firedAt, firedVariant,
                       frameVars>>

NextEngine == Tick \/ TriggerStep \/ FlashTimeout \/ BeepResume

\* the alert engine alone, with a showToast callback that returns
SpecEngine == InitEngineAlone /\ [][NextEngine]_vars

\* an engine constructed with any showToast callback: one that returns, or
\* one that throws when it is called
InitEngineAnyToast ==
    /\ InitProx /\ InitPosture /\ InitEngine /\ InitFrame
    /\ currentReference = NoReference
    /\ now \in ClockValues
    /\ \E h \in Hostnames, o \in {-1, CooldownOverride} :
           cooldownMs = ConstructorCooldown(h, o)
    /\ toastFails \in BOOLEAN
    /\ lastOp = "init"
    /\ InitCapture /\ InitAux

\* the alert engine alone, whatever its collaborators do
SpecEngineAnyToast == InitEngineAnyToast /\ [][NextEngine]_vars

----------------------------------------------------------------------------
(* Frame orchestration: one observation through both detectors and at     *)
(* most one trigger() call                                                 *)

REASON_PROXIMITY == "Hands near face"
REASON_POSTURE == "Posture"

\* the observations of the frame loop
FrameObservations ==
    { Obs(pose, h[1], h[2], h[3]) :
        pose \in {PoseUpright, PoseRounded},
        h \in { <<HandNear, <<>>, FaceNormal>>,
                <<HandFar, <<>>, FaceNormal>>,
                <<HandInside, <<>>, FaceSmall>> } }

NearObservations ==
    { o \in FrameObservations : ProxFrameKind(o) \in NearKinds }

\* which detector's event goes to the dispatcher: proximity before posture
DispatchSource(proxEvent, postEvent) ==
    IF proxEvent # "none" THEN "proximity"
    ELSE IF postEvent # "none" THEN "posture"
    ELSE "none"

\* the posture update of a frame: skipped while there is no reference
FramePostureUpdate(results) ==
    IF currentReference.isNull
    THEN [st |-> PostureState, ret |-> "none"]
    ELSE PostureUpdate(PostureState, results, currentReference)

\* the rest of a frame at clock value t, after the two updates returned pr
\* and po: the dispatch and the acknowledgement of the detector whose
\* alert fired
Orchestrate(pr, po, t, env) ==
    LET src == DispatchSource(pr.ret, po.ret)
        tr == IF src = "proximity"
              THEN Trigger(EngineState, t, pr.ret, REASON_PROXIMITY, env)
              ELSE Trigger(EngineState, t, po.ret, REASON_POSTURE, env)
        fired == src # "none" /\ tr.ret = "true"
    IN [prox |-> IF fired /\ src = "proximity" THEN ProxAckState(pr.st) ELSE pr.st,
        post |-> IF fired /\ src = "posture" THEN PostureAckState(po.st) ELSE po.st,
        proxRet |-> pr.ret, postRet |-> po.ret,
        offered |-> src, tr |-> tr, fired |-> fired,
        variant |-> IF src = "proximity" THEN pr.ret ELSE po.ret,
        reason |-> IF src = "proximity" THEN REASON_PROXIMITY ELSE REASON_POSTURE]

\* the outcomes, among envs, the browser may give the beep() of a frame
\* that offers an event of this variant at clock value t: one when beep()
\* is not reached
FrameBeepEnv(variant, t, envs) ==
    IF variant = "normal" /\ ~InCooldown(t, lastAlertAtMs, cooldownMs)
    THEN BeepEnvFor(audioCtx) \cap envs ELSE {"plays"}

\* the frame callback at clock value t, in a browser whose beep() outcomes
\* are among envs
FrameAt(results, t, envs) ==
    \E pr \in {ProxUpdate(ProxState, results)},
       po \in {FramePostureUpdate(results)},
       proxKind \in {ProxFrameKind(results)},
       postKind \in {IF currentReference.isNull THEN "none"
                     ELSE PostFrameKind(PostureState, results, currentReference)} :
    \E env \in FrameBeepEnv(IF pr.ret # "none" THEN pr.ret ELSE po.ret, t,
                             envs) :
    \E o \in {Orchestrate(pr, po, t, env)} :
       /\ t >= now
       /\ \A timer \in flashTimers : timer.due > t
       /\ now' = t
       /\ nearStreak' = o.prox.nearStreak /\ wasNear' = o.prox.wasNear
       /\ proxRet' = o.proxRet
       /\ proxFrame' = proxKind
       /\ proxRun' = IF proxKind \in NearKinds THEN proxRun + 1 ELSE 0
       /\ proxAcked' = IF proxKind \in NearKinds
                       THEN proxAcked \/ (o.fired /\ o.offered = "proximity")
                       ELSE FALSE
       /\ SetPosture(o.post)
       /\ postRet' = o.postRet
       /\ IF currentReference.isNull
          THEN UNCHANGED <<postFrame, postRun, postAcked>>
          ELSE /\ postFrame' = postKind
               /\ postRun' = IF postKind = "bad" THEN postRun + 1 ELSE 0
               /\ postAcked' = IF postKind = "bad"
                               THEN postAcked \/ (o.fired /\ o.offered = "posture")
                               ELSE FALSE
       /\ IF o.offered = "none"
          THEN /\ NoOutputs
               /\ UNCHANGED <<lastAlertAtMs, audioCtx, bodyClass, flashTimers,
                              beepPending, trigVariant, trigReason, trigRet,
                              firedAt, firedVariant>>
          ELSE /\ o.tr.st.beepPending <= MaxPending
               /\ ApplyTrigger(o.tr, t, o.variant, o.reason)
       /\ offered' = o.offered
       /\ frameFires' = IF o.fired THEN 1 ELSE 0
       /\ steadyFires' = IF steady /\ o.fired /\ o.offered = "proximity"
                         THEN steadyFires + 1 ELSE steadyFires
       /\ lastOp' = "frame"
       /\ UNCHANGED <<currentReference, engCfgVars, auxVars, capVars, steady>>

\* the clock when the app starts: within one cooldown of 0, and beyond
AppStartClock == {4999, 60000}

\* the app: an engine with the default cooldown of its host and a
\* showToast that returns, with or without a calibrated reference
InitApp ==
    /\ InitProx /\ InitPosture /\ InitEngine /\ InitFrame
    /\ currentReference \in {NoReference, ReferenceUpright}
    /\ now \in AppStartClock
    /\ \E h \in Hostnames : cooldownMs = ConstructorCooldown(h, -1)
    /\ toastFails = FALSE
    /\ lastOp = "init"
    /\ InitCapture /\ InitAux

\* a frame arrives
FrameStep ==
    \E results \in FrameObservations :
        /\ FrameAt(results, now, BeepEnv)
        /\ nearStreak' <= MaxStreak /\ badStreak' <= MaxStreak
        \* the counters of the end-to-end run are not kept here
        /\ UNCHANGED <<frameCount, firedCount>>

NextFrame == Tick \/ FrameStep \/ FlashTimeout \/ BeepResume

\* the frame loop outside a capture session
SpecFrame == InitApp /\ [][NextFrame]_vars

----------------------------------------------------------------------------
(* The end-to-end run: a fixed number of near frames at a fixed spacing *)

\* the frames of the run and the time between two of them, in ms
E2EFrames == 20
FrameSpacingMs == 90

\* the dispatcher cooldown of the run
E2ECooldownMs == COOLDOWN_DEV_MS

\* what the clock reads at the first frame: a simulated clock started at 0,
\* one that passes the cooldown during the run, and readings past it
E2EStartClock == {0, 4000, 4999, 60000}

InitE2E ==
    /\ InitProx /\ InitPosture /\ InitEngine /\ InitFrame
    /\ currentReference \in {NoReference, ReferenceUpright}
    /\ now \in E2EStartClock
    /\ cooldownMs = ConstructorCooldown("posturelens.app", E2ECooldownMs)
    /\ toastFails = FALSE
    /\ lastOp = "init"
    /\ InitCapture /\ InitAux

\* the next near frame of the run, FrameSpacingMs after the one before
E2EFrame ==
    \E results \in NearObservations :
        /\ frameCount < E2EFrames
        /\ FrameAt(results, IF frameCount = 0 THEN now ELSE now + FrameSpacingMs,
                   BeepEnv)
        /\ frameCount' = frameCount + 1
        /\ firedCount' = firedCount + frameFires'

NextE2E == E2EFrame \/ BeepResume

\* 20 near frames through update / trigger / acknowledge-on-success
SpecE2E == InitE2E /\ [][NextE2E]_vars

----------------------------------------------------------------------------
(* A near condition that stays: frames keep arriving, the clock advances *)

\* the clock of these runs stops at LiveMaxNow; the condition becomes
\* steady no later than LiveSteadyBy; the cooldown is LiveCooldownMs
LiveMaxNow == 14
LiveSteadyBy == 6
LiveCooldownMs == 5

\* the time between two frames
LiveSpacing == {1}

\* no reference has been calibrated: the frame loop does not update the
\* posture detector, and every alert is a proximity alert
InitLive ==
    /\ InitProx /\ InitPosture /\ InitEngine /\ InitFrame
    /\ currentReference = NoReference
    /\ now = 0
    /\ cooldownMs = ConstructorCooldown("localhost", LiveCooldownMs)
    /\ toastFails = FALSE
    /\ lastOp = "init"
    /\ InitCapture /\ InitAux

\* a frame arrives after the clock has advanced, in a browser that plays
\* every tone; once the condition is steady every frame is a near frame
LiveFrame ==
    \E d \in LiveSpacing :
        \E results \in (IF steady THEN NearObservations ELSE FrameObservations) :
            /\ now + d <= LiveMaxNow
            /\ FrameAt(results, now + d, {"plays"})
            /\ UNCHANGED <<frameCount, firedCount>>

\* the environment: from the next frame on the hands stay near the face
BeginSteady ==
    /\ ~steady /\ nearStreak = 0 /\ now <= LiveSteadyBy
    /\ steady' = TRUE
    /\ NoOutputs
    /\ lastOp' = "beginSteady"
    /\ UNCHANGED <<proxVars, postVars, currentReference, now, engCfgVars, auxVars, capVars,
                   lastAlertAtMs, audioCtx, bodyClass, flashTimers, beepPending,
                   trigVariant, trigReason, trigRet, firedAt, firedVariant,
                   offered, frameFires, frameCount, firedCount, steadyFires>>

NextLive == LiveFrame \/ BeginSteady

\* frames keep arriving: the detector's frame callback is weakly fair
SpecLive == InitLive /\ [][NextLive]_vars /\ WF_vars(LiveFrame)

----------------------------------------------------------------------------
(* Reference calibration: the capture session and the app around it *)

MIN_CAPTURE_FRAMES == 10

\* a session's buffer is not driven beyond this many triangles
MaxCaptureFrames == 11

\* extractTriangleLandmarks: the three landmarks, or null (ok = FALSE)
extractTriangleLandmarks(poseLandmarks) ==
    IF /\ HasLandmark(poseLandmarks, LANDMARK_NOSE)
       /\ HasLandmark(poseLandmarks, LANDMARK_LEFT_SHOULDER)
       /\ HasLandmark(poseLandmarks, LANDMARK_RIGHT_SHOULDER)
    THEN [ok |-> TRUE,
          tri |-> [nose |-> Landmark(poseLandmarks, LANDMARK_NOSE),
                   leftShoulder |-> Landmark(poseLandmarks, LANDMARK_LEFT_SHOULDER),
                   rightShoulder |-> Landmark(poseLandmarks, LANDMARK_RIGHT_SHOULDER)]]
    ELSE [ok |-> FALSE, tri |-> <<>>]

\* the collection step with the push left out
CapturePush_Drop(buffer, results) == buffer

\* onDetectorResults while capturing: a frame whose triangle can be
\* extracted is appended to the buffer, any other frame is skipped
CapturePush(buffer, results) ==
    LET t == extractTriangleLandmarks(results.poseLandmarks)
    IN IF t.ok THEN Append(buffer, t.tri) ELSE buffer

\* the sum of one coordinate of one landmark over the buffer from index i;
\* a missing z counts as 0
RECURSIVE SumCoord(_, _, _, _)
SumCoord(buffer, part, coord, i) ==
    IF i > Len(buffer) THEN 0
    ELSE buffer[i][part][coord] + SumCoord(buffer, part, coord, i + 1)

\* one averaged landmark: each coordinate summed and divided by the count,
\* held to the hundredth below
averagedLandmark(buffer, part) ==
    PZ(SumCoord(buffer, part, "x", 1) \div Len(buffer),
       SumCoord(buffer, part, "y", 1) \div Len(buffer),
       SumCoord(buffer, part, "z", 1) \div Len(buffer))

\* the sum of the frames' own ratios from index i
RECURSIVE SumRatio(_, _)
SumRatio(buffer, i) ==
    IF i > Len(buffer) THEN 0
    ELSE calculateTriangleRatio(buffer[i].nose, buffer[i].leftShoulder,
                                buffer[i].rightShoulder)
         + SumRatio(buffer, i + 1)

\* a reference whose ratio is the average of the frames' ratios
AveragedReference_MeanOfRatios(buffer) ==
    [nose |-> averagedLandmark(buffer, "nose"),
     leftShoulder |-> averagedLandmark(buffer, "leftShoulder"),
     rightShoulder |-> averagedLandmark(buffer, "rightShoulder"),
     ratio |-> SumRatio(buffer, 1) \div Len(buffer),
     isNull |-> FALSE]

\* the ReferencePose captureReferencePose builds from the buffer: averaged
\* landmarks, and the ratio of the averaged triangle
AveragedReference(buffer) ==
    MakeReference(averagedLandmark(buffer, "nose"),
                  averagedLandmark(buffer, "leftShoulder"),
                  averagedLandmark(buffer, "rightShoulder"))
    @@ [isNull |-> FALSE]

\* the validation with the minimum off by one (length <= minimum fails)
TooFewFrames_Inclusive(buffer) == Len(buffer) <= MIN_CAPTURE_FRAMES

\* the validation of captureReferencePose: fewer triangles than the minimum
TooFewFrames(buffer) == Len(buffer) < MIN_CAPTURE_FRAMES

\* the end of captureReferencePose returning the reference whether or not
\* it was saved
CaptureReturn_Unsaved(outcome, reference) == reference

\* what captureReferencePose returns once saveReference() has settled: the
\* reference when it resolved, null when it rejected
CaptureReturn(outcome, reference) ==
    IF outcome = "resolved" THEN reference ELSE NoReference

\* the caller's assignment made whatever captureReferencePose returned
ReferenceAfterCapture_Always(ref, returned) == returned

\* the capture button's handler after captureReferencePose returned:
\* `if (ref) currentReference = ref`
ReferenceAfterCapture(ref, returned) ==
    IF returned.isNull THEN ref ELSE returned

\* the app as it starts monitoring on localhost, with or without a stored
\* reference, past the first cooldown of the clock
InitMonitoring ==
    /\ InitProx /\ InitPosture /\ InitEngine /\ InitFrame
    /\ currentReference \in {NoReference, ReferenceUpright}
    /\ now = COOLDOWN_PROD_MS
    /\ cooldownMs = ConstructorCooldown("localhost", -1)
    /\ toastFails = FALSE
    /\ lastOp = "init"
    /\ InitCapture /\ InitAux

\* the capture button is clicked: captureReferencePose() up to its first
\* timer.  Detection is started first when it is not running; when the
\* webcam cannot be had the call returns null there.
CaptureClick ==
    \E webcam \in (IF detectionLoopRunning THEN {"ok"} ELSE {"ok", "fails"}) :
        /\ capturePhase = "idle"
        /\ startBtnDisabled' = TRUE
        /\ IF webcam = "fails"
           THEN /\ captureRet' = [status |-> "webcam-failed", count |-> -1]
                /\ currentReference' =
                       ReferenceAfterCapture(currentReference, NoReference)
                /\ UNCHANGED <<detectionLoopRunning, isCapturing, captureBuffer,
                               capturePhase, saveAttempted, sessionStart>>
           ELSE /\ detectionLoopRunning' = TRUE
                /\ captureBuffer' = <<>>
                /\ isCapturing' = TRUE
                /\ capturePhase' = "collecting"
                /\ saveAttempted' = FALSE
                /\ sessionStart' = <<currentReference, savedReference>>
                /\ UNCHANGED <<captureRet, currentReference>>
        /\ NoOutputs
        /\ lastOp' = "captureClick"
        /\ UNCHANGED <<proxVars, postVars, now, engCfgVars, auxVars,
                       lastAlertAtMs, audioCtx, bodyClass, flashTimers, beepPending,
                   trigVariant, trigReason, trigRet, firedAt, firedVariant,
                       frameVars, pendingReference, savedReference>>

\* a frame arrives while capturing
CaptureFrame(results) ==
    /\ NoDueTimer
    /\ captureBuffer' = CapturePush(captureBuffer, results)
    /\ Len(captureBuffer') <= MaxCaptureFrames
    /\ offered' = "none" /\ frameFires' = 0
    /\ NoOutputs
    /\ lastOp' = IF extractTriangleLandmarks(results.poseLandmarks).ok
                 THEN "captureFrame" ELSE "captureSkip"
    /\ UNCHANGED <<proxVars, postVars, currentReference, now, engCfgVars, auxVars,
                   lastAlertAtMs, audioCtx, bodyClass, flashTimers, beepPending,
                   trigVariant, trigReason, trigRet, firedAt, firedVariant,
                   frameCount, firedCount, steady, steadyFires,
                   detectionLoopRunning, startBtnDisabled, isCapturing,
                   capturePhase, pendingReference, savedReference, captureRet,
                   saveAttempted, sessionStart>>

\* the frame callback of the running app, in a browser whose beep()
\* outcomes are among envs: to the capture buffer while a session collects,
\* through the detectors and the dispatcher otherwise
AppFrameOn(results, envs) ==
    /\ detectionLoopRunning
    /\ IF isCapturing
       THEN CaptureFrame(results)
       ELSE /\ FrameAt(results, now, envs)
            /\ nearStreak' <= MaxStreak /\ badStreak' <= MaxStreak
            /\ UNCHANGED <<frameCount, firedCount>>

\* the session's timers have run: capturing stops and the buffer is
\* validated; with too few frames the call returns null to the button's
\* handler, with enough the reference is averaged and saveReference() is
\* called
CaptureFinish ==
    /\ capturePhase = "collecting"
    /\ isCapturing' = FALSE
    /\ IF TooFewFrames(captureBuffer)
       THEN /\ captureRet' = [status |-> "insufficient",
                              count |-> Len(captureBuffer)]
            /\ capturePhase' = "idle"
            /\ currentReference' =
                   ReferenceAfterCapture(currentReference, NoReference)
            /\ UNCHANGED <<pendingReference, saveAttempted>>
       ELSE /\ pendingReference' = AveragedReference(captureBuffer)
            /\ saveAttempted' = TRUE
            /\ capturePhase' = "saving"
            /\ UNCHANGED <<captureRet, currentReference>>
    /\ NoOutputs
    /\ lastOp' = "captureFinish"
    /\ UNCHANGED <<proxVars, postVars, now, engCfgVars, auxVars,
                   lastAlertAtMs, audioCtx, bodyClass, flashTimers, beepPending,
                   trigVariant, trigReason, trigRet, firedAt, firedVariant,
                   frameVars, detectionLoopRunning, startBtnDisabled,
                   captureBuffer, savedReference, sessionStart>>

\* saveReference() settles: resolved, the record is stored, the session
\* returns the reference and the handler makes it current; rejected, the
\* session returns null
SaveSettled ==
    \E outcome \in {"resolved", "rejected"} :
        \E returned \in {CaptureReturn(outcome, pendingReference)} :
            /\ capturePhase = "saving"
            /\ savedReference' = IF outcome = "resolved" THEN pendingReference
                                 ELSE savedReference
            /\ captureRet' = IF outcome = "resolved"
                             THEN [status |-> "ok", count |-> Len(captureBuffer)]
                             ELSE [status |-> "save-failed", count |-> -1]
            /\ startBtnDisabled' = IF outcome = "resolved" THEN FALSE
                                   ELSE startBtnDisabled
            /\ currentReference' = ReferenceAfterCapture(currentReference, returned)
            /\ capturePhase' = "idle"
            /\ pendingReference' = NoReference
            /\ NoOutputs
            /\ lastOp' = "saveSettled"
            /\ UNCHANGED <<proxVars, postVars, now, engCfgVars, auxVars,
                           lastAlertAtMs, audioCtx, bodyClass, flashTimers, beepPending,
                   trigVariant, trigReason, trigRet, firedAt, firedVariant,
                           frameVars, detectionLoopRunning, isCapturing,
                           captureBuffer, saveAttempted, sessionStart>>

\* the start/stop button is clicked while monitoring: stopDetection()
StopClick ==
    /\ ~startBtnDisabled /\ detectionLoopRunning
    /\ detectionLoopRunning' = FALSE
    /\ startBtnDisabled' = currentReference.isNull
    /\ NoOutputs
    /\ lastOp' = "stop"
    /\ UNCHANGED <<proxVars, postVars, currentReference, now, engCfgVars, auxVars,
                   lastAlertAtMs, audioCtx, bodyClass, flashTimers, beepPending,
                   trigVariant, trigReason, trigRet, firedAt, firedVariant,
                   frameVars, isCapturing, captureBuffer, capturePhase,
                   pendingReference, savedReference, captureRet,
                   saveAttempted, sessionStart>>

\* the start/stop button is clicked while stopped: the webcam is set up
\* and startDetection() runs, or the webcam cannot be had
StartClick ==
    \E webcam \in {"ok", "fails"} :
        /\ ~startBtnDisabled /\ ~detectionLoopRunning
        /\ detectionLoopRunning' = (webcam = "ok")
        /\ startBtnDisabled' = IF webcam = "ok" THEN currentReference.isNull
                               ELSE startBtnDisabled
        /\ NoOutputs
        /\ lastOp' = "start"
        /\ UNCHANGED <<proxVars, postVars, currentReference, now, engCfgVars, auxVars,
                       lastAlertAtMs, audioCtx, bodyClass, flashTimers, beepPending,
                   trigVariant, trigReason, trigRet, firedAt, firedVariant,
                       frameVars, isCapturing, captureBuffer, capturePhase,
                       pendingReference, savedReference, captureRet,
                       saveAttempted, sessionStart>>

\* the observations of the monitoring app: the user upright or out of the
\* frame, a hand near the face or away from it
SessionObservations ==
    { Obs(pose, hand, <<>>, FaceNormal) :
        pose \in {PoseUpright, PoseShort}, hand \in {HandNear, HandFar} }

\* a frame arrives, in a browser that plays every tone
AppFrame == \E results \in SessionObservations : AppFrameOn(results, {"plays"})

NextApp ==
    \/ AppFrame \/ CaptureClick \/ CaptureFinish \/ SaveSettled
    \/ StopClick \/ StartClick

\* monitoring, capture sessions, stopping and starting
SpecApp == InitMonitoring /\ [][NextApp]_vars

\* the observations of the calibration runs: outside a session the user
\* sits upright with the hands away
QuietObservation == Obs(PoseUpright, HandFar, <<>>, FaceNormal)
CalibObservations ==
    { Obs(pose, HandFar, <<>>, FaceNormal) :
        pose \in {PoseUpright, PoseHeadDown, PoseShort} }

\* a frame arrives; within one session the user changes pose at most once
CalibFrame ==
    \E results \in CalibObservations :
        /\ isCapturing \/ results = QuietObservation
        /\ AppFrameOn(results, {"plays"})
        /\ Cardinality({ i \in 1..(Len(captureBuffer') - 1) :
                            captureBuffer'[i] # captureBuffer'[i + 1] }) <= 1

\* the user calibrates again until a session has succeeded
CalibClick == captureRet.status # "ok" /\ CaptureClick

NextCalib == CalibFrame \/ CalibClick \/ CaptureFinish \/ SaveSettled

\* capture sessions, one after another
SpecCalib == InitMonitoring /\ [][NextCalib]_vars

----------------------------------------------------------------------------
(* Two PostureDeviation detectors fed the same frames with other depths *)

\* a landmark with its depth left alone ("same"), removed ("none") or moved
\* 0.15 towards the camera ("closer")
WithDepth(p, change) ==
    IF change = "none" THEN [p EXCEPT !.hasZ = FALSE, !.z = 0]
    ELSE IF change = "closer" THEN [p EXCEPT !.hasZ = TRUE, !.z = p.z - 15]
    ELSE p

\* an observation with the depth of every pose landmark changed
ResultsWithDepth(results, change) ==
    [results EXCEPT !.poseLandmarks =
        [i \in 1..Len(results.poseLandmarks) |->
            WithDepth(results.poseLandmarks[i], change)]]

\* a reference with the same x, y and ratio and the depths changed
ReferenceWithDepth(reference, change) ==
    [reference EXCEPT !.nose = WithDepth(reference.nose, change),
                      !.leftShoulder = WithDepth(reference.leftShoulder, change),
                      !.rightShoulder = WithDepth(reference.rightShoulder, change)]

\* the frames both are fed: upright, rounded (bad), rounded with the head
\* down (bad, head tilt) and without shoulders
TwinObservations ==
    { Obs(pose, <<>>, <<>>, <<>>) :
        pose \in {PoseUpright, PoseRounded, PoseHeadDown, PoseShort} }

\* the depth changes of a frame, <<live, reference>>
TwinDepthChanges ==
    { <<"none", "same">>, <<"closer", "same">>, <<"same", "none">>,
      <<"same", "closer">> }

\* every object as constructed, with the upright reference
InitAlone ==
    /\ InitProx /\ InitPosture /\ InitEngine /\ InitFrame
    /\ currentReference = ReferenceUpright
    /\ now = 0
    /\ cooldownMs = ConstructorCooldown("localhost", -1)
    /\ toastFails = FALSE
    /\ lastOp = "init"
    /\ InitCapture /\ InitAux

\* update() on both: the same x and y, the twin's depths changed in the
\* frame and in the reference
TwinUpdate ==
    \E results \in TwinObservations :
      \E change \in TwinDepthChanges :
        \E r \in {PostureUpdate(PostureState, results, currentReference)} :
          \E t \in {PostureUpdate(twin.st, ResultsWithDepth(results, change[1]),
                                  ReferenceWithDepth(currentReference, change[2]))} :
             /\ r.st.badStreak <= MaxStreak
             /\ SetPosture(r.st)
             /\ postRet' = r.ret
             /\ PostHistory(results, currentReference)
             /\ twin' = t
             /\ lastResults' = results
             /\ lastOp' = "twinUpdate"
             /\ UNCHANGED <<proxVars, currentReference, now, engCfgVars, capVars,
                            engVars, frameVars, windowVars, storeVars, triVars, moreVars>>

\* acknowledge() on both
TwinAcknowledge ==
    /\ SetPosture(PostureAckState(PostureState))
    /\ postAcked' = TRUE
    /\ twin' = [twin EXCEPT !.st = PostureAckState(twin.st)]
    /\ lastOp' = "twinAck"
    /\ UNCHANGED <<postRet, postRun, postFrame, proxVars, currentReference, now,
                   engCfgVars, capVars, engVars, frameVars, lastResults,
                   windowVars, storeVars, triVars, moreVars>>

\* reset() on both
TwinReset ==
    /\ SetPosture(PostureResetState)
    /\ postRun' = 0 /\ postAcked' = FALSE
    /\ twin' = [twin EXCEPT !.st = PostureResetState]
    /\ lastOp' = "twinReset"
    /\ UNCHANGED <<postRet, postFrame, proxVars, currentReference, now,
                   engCfgVars, capVars, engVars, frameVars, lastResults,
                   windowVars, storeVars, triVars, moreVars>>

NextTwin == TwinUpdate \/ TwinAcknowledge \/ TwinReset

\* two runs of the posture detector that differ in depth only
SpecTwin == InitAlone /\ [][NextTwin]_vars

----------------------------------------------------------------------------
(* A MovingAverage on its own *)

\* the add() calls made between two reset() calls
MaxAdds == 5

\* the samples, in thousandths
SampleValues == {0, 870, 1000, -300}

\* add(v)
WindowAdd ==
    \E v \in SampleValues :
        /\ Len(added) < MaxAdds
        /\ window' = MovingAverageAdd(window, v)
        /\ addRet' = MovingAverageMean(window')
        /\ added' = Append(added, v)
        /\ lastOp' = "add"
        /\ UNCHANGED <<proxVars, postVars, currentReference, now, engCfgVars,
                       capVars, engVars, frameVars, lastResults, twin, storeVars,
                       triVars, moreVars>>

\* reset()
WindowReset ==
    /\ window' = MovingAverageEmpty
    /\ added' = <<>>
    /\ lastOp' = "windowReset"
    /\ UNCHANGED <<addRet, proxVars, postVars, currentReference, now, engCfgVars,
                   capVars, engVars, frameVars, lastResults, twin, storeVars,
                   triVars, moreVars>>

NextWindow == WindowAdd \/ WindowReset

\* a MovingAverage driven through add() and reset()
SpecWindow == InitAlone /\ [][NextWindow]_vars

----------------------------------------------------------------------------
(* calculateTriangleRatio on its own *)

\* the square roots are held in ten-thousandths here
RatioPrecision == Scale

\* the landmark positions tried, and the scalings <<numerator, denominator>>
GridPoints == { P(gx, gy) : gx \in {40, 50, 60}, gy \in {30, 50, 60} }
ScaleFactors == { <<2, 1>>, <<3, 1>>, <<1, 2>>, <<3, 2>> }
ScaleCentres == { P(50, 50), P(0, 0), P(60, 30) }

Scales(p, c, k) ==
    /\ (k[1] * (p.x - c.x)) % k[2] = 0
    /\ (k[1] * (p.y - c.y)) % k[2] = 0

\* the point p moved to c + k (p - c)
ScalePoint(p, c, k) ==
    P(c.x + (k[1] * (p.x - c.x)) \div k[2], c.y + (k[1] * (p.y - c.y)) \div k[2])

ScaleTriangle(t, c, k) ==
    [nose |-> ScalePoint(t.nose, c, k),
     leftShoulder |-> ScalePoint(t.leftShoulder, c, k),
     rightShoulder |-> ScalePoint(t.rightShoulder, c, k)]

RatioOfTriangle(t) ==
    TriangleRatioAt(t.nose, t.leftShoulder, t.rightShoulder, RatioPrecision)

\* calculateTriangleRatio(nose, leftShoulder, rightShoulder), on the one
\* triangle of the run
RatioCall ==
    \E nose \in GridPoints, left \in GridPoints, right \in GridPoints :
        \E t \in {[nose |-> nose, leftShoulder |-> left, rightShoulder |-> right]} :
            /\ lastOp = "init"
            /\ triangle' = t
            /\ triangleRatio' = RatioOfTriangle(t)
            /\ scaledFrom' = NoScaling
            /\ lastOp' = "ratio"
            /\ UNCHANGED <<proxVars, postVars, currentReference, now, engCfgVars,
                           capVars, engVars, frameVars, lastResults, twin,
                           windowVars, storeVars, moreVars>>

\* calculateTriangleRatio on the last triangle scaled by k about c
RatioCallScaled ==
    \E k \in ScaleFactors, c \in ScaleCentres :
        \E t \in {ScaleTriangle(triangle, c, k)} :
            /\ lastOp = "ratio"
            /\ Scales(triangle.nose, c, k) /\ Scales(triangle.leftShoulder, c, k)
            /\ Scales(triangle.rightShoulder, c, k)
            /\ triangle' = t
            /\ triangleRatio' = RatioOfTriangle(t)
            /\ scaledFrom' = [triangle |-> triangle, ratio |-> triangleRatio, k |-> k]
            /\ lastOp' = "ratioScaled"
            /\ UNCHANGED <<proxVars, postVars, currentReference, now, engCfgVars,
                           capVars, engVars, frameVars, lastResults, twin,
                           windowVars, storeVars, moreVars>>

NextTriangle == RatioCall \/ RatioCallScaled

\* calculateTriangleRatio applied to triangles and to their scalings
SpecTriangle == InitAlone /\ [][NextTriangle]_vars

----------------------------------------------------------------------------
(* The reference store on its own *)

REFERENCE_KEY == "current"

\* put() that leaves a record already under the key in place
StorePut_KeepFirst(db, pose) ==
    IF REFERENCE_KEY \in DOMAIN db THEN db
    ELSE [k \in {REFERENCE_KEY} |-> pose]

\* store.put(pose, REFERENCE_KEY)
StorePut(db, pose) ==
    [k \in DOMAIN db \cup {REFERENCE_KEY} |->
        IF k = REFERENCE_KEY THEN pose ELSE db[k]]

\* store.get(REFERENCE_KEY) ?? null
StoreGet(db) ==
    IF REFERENCE_KEY \in DOMAIN db THEN db[REFERENCE_KEY] ELSE NoReference

\* indexedDB.deleteDatabase(DB_NAME), and the database openDb() creates anew
StoreDeleted == <<>>

\* the saves that succeed between two deletions of the database
MaxWrites == 2

\* the poses saved
StorePoses ==
    { ReferenceUpright, ReferenceFlat, ReferenceInverted,
      MakeReference(P(50, 10), P(32, 50), P(68, 50)) @@ [isNull |-> FALSE],
      MakeReference(P(50, 20), P(37, 50), P(63, 50)) @@ [isNull |-> FALSE] }

\* the store as the page finds it: empty, or holding a reference
InitStore ==
    /\ InitProx /\ InitPosture /\ InitEngine /\ InitFrame
    /\ currentReference = NoReference
    /\ now = 0
    /\ cooldownMs = ConstructorCooldown("localhost", -1)
    /\ toastFails = FALSE
    /\ lastOp = "init"
    /\ InitCapture
    /\ lastResults = NoObservation
    /\ twin = NewDetector
    /\ window = MovingAverageEmpty /\ added = <<>> /\ addRet = NaN
    /\ triangle = NoTriangle /\ triangleRatio = NaN /\ scaledFrom = NoScaling
    /\ detector = DetectorConstructed /\ detRet = NoDetectorCall /\ recentSends = <<>>
    /\ chains = <<FirstChain>> /\ animationFrameId = FirstChain.id
    /\ nextRequestId = FirstChain.id + 1
    /\ captureBtnDisabled = FALSE /\ sessions = <<>>
    /\ clearPc = "idle" /\ clearedSince = FALSE
    /\ written \in {<<>>, <<ReferenceUpright>>}
    /\ referenceDb = IF written = <<>> THEN StoreDeleted
                     ELSE StorePut(StoreDeleted, written[1])
    /\ storeRet = NoCall

StoreUnchanged ==
    UNCHANGED <<proxVars, postVars, currentReference, now, engCfgVars, capVars,
                engVars, frameVars, lastResults, twin, windowVars, triVars, moreVars>>

\* saveReference(pose): resolved once the put request succeeded, rejected
\* when the database cannot be opened or the request fails
SaveReference ==
    \E pose \in StorePoses, outcome \in {"resolved", "rejected"} :
        /\ outcome = "resolved" => Len(written) < MaxWrites
        /\ referenceDb' = IF outcome = "resolved" THEN StorePut(referenceDb, pose)
                          ELSE referenceDb
        /\ written' = IF outcome = "resolved" THEN Append(written, pose)
                      ELSE written
        /\ storeRet' = [op |-> "save", ok |-> outcome = "resolved",
                        value |-> pose, has |-> FALSE]
        /\ lastOp' = "save"
        /\ StoreUnchanged

\* loadReference()
LoadReference ==
    \E outcome \in {"resolved", "rejected"} :
        /\ storeRet' = [op |-> "load", ok |-> outcome = "resolved",
                        value |-> IF outcome = "resolved" THEN StoreGet(referenceDb)
                                  ELSE NoReference,
                        has |-> FALSE]
        /\ lastOp' = "load"
        /\ UNCHANGED <<referenceDb, written>>
        /\ StoreUnchanged

\* hasReference(): loadReference() !== null
HasReference ==
    \E outcome \in {"resolved", "rejected"} :
        /\ storeRet' = [op |-> "has", ok |-> outcome = "resolved",
                        value |-> NoReference,
                        has |-> outcome = "resolved" /\ ~StoreGet(referenceDb).isNull]
        /\ lastOp' = "has"
        /\ UNCHANGED <<referenceDb, written>>
        /\ StoreUnchanged

\* clearAllData()
ClearAllData ==
    \E outcome \in {"resolved", "rejected"} :
        /\ referenceDb' = IF outcome = "resolved" THEN StoreDeleted ELSE referenceDb
        /\ written' = IF outcome = "resolved" THEN <<>> ELSE written
        /\ storeRet' = [op |-> "clear", ok |-> outcome = "resolved",
                        value |-> NoReference, has |-> FALSE]
        /\ lastOp' = "clear"
        /\ StoreUnchanged

NextStore == SaveReference \/ LoadReference \/ HasReference \/ ClearAllData

\* the reference store driven through its four functions, one call at a time
SpecStore == InitStore /\ [][NextStore]_vars

----------------------------------------------------------------------------
(* A Detector on its own: model loading, frame decimation, cleanup *)

\* the running frame count is not driven beyond this
MaxFrameCount == 7

\* the values setFrameDecimation() is called with
Decimations == {-1, 0, 1, 2, 3}

\* the decimation test of processFrame() letting every frame through
sendsFrame_Always(count, decimation) == TRUE

\* the decimation test of processFrame(): the frame goes to the model
\* when the running count is a multiple of the decimation
sendsFrame(count, decimation) == count % decimation = 0

\* loadModel(): throws when the Holistic script is not on the page,
\* creates the model otherwise
loadModel(d, scriptLoaded) ==
    IF ~scriptLoaded THEN [st |-> d, threw |-> TRUE, sent |-> FALSE]
    ELSE [st |-> [d EXCEPT !.holistic = TRUE], threw |-> FALSE, sent |-> FALSE]

\* processFrame(): throws without a model; counts the frame and sends it
\* to the model or returns
processFrame(d) ==
    IF ~d.holistic THEN [st |-> d, threw |-> TRUE, sent |-> FALSE]
    ELSE LET counted == [d EXCEPT !.frameCount = @ + 1]
         IN [st |-> counted, threw |-> FALSE,
             sent |-> sendsFrame(counted.frameCount, counted.frameDecimation)]

\* setFrameDecimation(decimation)
setFrameDecimation(d, decimation) ==
    IF decimation < 1 THEN [st |-> d, threw |-> TRUE, sent |-> FALSE]
    ELSE [st |-> [d EXCEPT !.frameDecimation = decimation],
          threw |-> FALSE, sent |-> FALSE]

\* cleanup(): the model is closed and dropped
cleanup(d) == [st |-> [d EXCEPT !.holistic = FALSE], threw |-> FALSE, sent |-> FALSE]

\* one call on the Detector: its fields and what the call did
DetectorCall(op, arg, r) ==
    /\ detector' = r.st
    /\ detRet' = [op |-> op, arg |-> arg, threw |-> r.threw, sent |-> r.sent]
    /\ lastOp' = op
    /\ UNCHANGED <<proxVars, postVars, currentReference, now, engCfgVars,
                   capVars, engVars, frameVars, lastResults, twin,
                   windowVars, storeVars, triVars, loopVars, sessVars>>

DetLoadModel ==
    \E scriptLoaded \in BOOLEAN :
        /\ DetectorCall("loadModel", 0, loadModel(detector, scriptLoaded))
        /\ UNCHANGED recentSends

\* the last three processFrame() calls that returned, the newest last
DetProcessFrame ==
    \E r \in {processFrame(detector)} :
        /\ r.st.frameCount <= MaxFrameCount
        /\ DetectorCall("processFrame", 0, r)
        /\ recentSends' = IF r.threw THEN recentSends
                     ELSE IF Len(recentSends) < DEFAULT_FRAME_DECIMATION
                     THEN Append(recentSends, r.sent)
                     ELSE Append(Tail(recentSends), r.sent)

\* a changed decimation starts a new run of calls
DetSetFrameDecimation ==
    \E decimation \in Decimations :
        \E r \in {setFrameDecimation(detector, decimation)} :
            /\ DetectorCall("setFrameDecimation", decimation, r)
            /\ recentSends' = IF r.threw THEN recentSends ELSE <<>>

DetCleanup ==
    /\ DetectorCall("cleanup", 0, cleanup(detector))
    /\ UNCHANGED recentSends

NextDecimation ==
    DetLoadModel \/ DetProcessFrame \/ DetSetFrameDecimation \/ DetCleanup

\* a Detector driven through its methods, one call at a time
SpecDecimation == InitAlone /\ [][NextDecimation]_vars

----------------------------------------------------------------------------
(* The detection loop: startDetection, stopDetection and the animation-   *)
(* frame callbacks                                                         *)

\* startDetection() is not called more often than this
MaxChains == 3

\* requestAnimationFrame() is not called more often than this
MaxRequests == 8

\* the closures whose callback is requested or whose processFrame() is in
\* flight
LiveChains == { c \in 1..Len(chains) : chains[c].pc \in {"scheduled", "inflight"} }

\* requestAnimationFrame(processNextFrame) by chain c, assigned to
\* animationFrameId
RequestFrame(c) ==
    /\ nextRequestId <= MaxRequests
    /\ chains' = [chains EXCEPT ![c].pc = "scheduled", ![c].id = nextRequestId]
    /\ animationFrameId' = nextRequestId
    /\ nextRequestId' = nextRequestId + 1

LoopUnchanged ==
    UNCHANGED <<proxVars, postVars, currentReference, now, engCfgVars,
                engVars, frameVars, lastResults, twin, windowVars, storeVars,
                triVars, detVars, sessVars,
                startBtnDisabled, isCapturing, captureBuffer, capturePhase,
                pendingReference, savedReference, captureRet, saveAttempted,
                sessionStart>>

\* startDetection(): returns at once when the loop runs; otherwise sets
\* the flag and requests the first frame of a new closure
StartDetection ==
    /\ IF detectionLoopRunning
       THEN UNCHANGED <<detectionLoopRunning, loopVars>>
       ELSE /\ Len(chains) < MaxChains
            /\ nextRequestId <= MaxRequests
            /\ detectionLoopRunning' = TRUE
            /\ chains' = Append(chains, [pc |-> "scheduled", id |-> nextRequestId,
                                         stopped |-> FALSE])
            /\ animationFrameId' = nextRequestId
            /\ nextRequestId' = nextRequestId + 1
    /\ lastOp' = "startDetection"
    /\ LoopUnchanged

\* stopDetection(): clears the flag and cancels the request whose id is in
\* animationFrameId; a request that has already run is not affected
StopDetection ==
    /\ detectionLoopRunning' = FALSE
    /\ chains' = [c \in 1..Len(chains) |->
                    IF chains[c].pc = "scheduled" /\ chains[c].id = animationFrameId
                    THEN [chains[c] EXCEPT !.pc = "cancelled"]
                    ELSE IF c \in LiveChains
                    THEN [chains[c] EXCEPT !.stopped = TRUE]
                    ELSE chains[c]]
    /\ animationFrameId' = 0
    /\ UNCHANGED nextRequestId
    /\ lastOp' = "stopDetection"
    /\ LoopUnchanged

\* the browser runs a requested callback: processNextFrame() up to its
\* await.  With the flag clear it returns; with the video not ready it
\* requests the next frame; otherwise it calls detector.processFrame()
ProcessNextFrame ==
    \E c \in 1..Len(chains), ready \in BOOLEAN :
        /\ chains[c].pc = "scheduled"
        /\ IF ~detectionLoopRunning
           THEN /\ chains' = [chains EXCEPT ![c].pc = "returned"]
                /\ UNCHANGED <<animationFrameId, nextRequestId>>
           ELSE IF ready
           THEN /\ chains' = [chains EXCEPT ![c].pc = "inflight"]
                /\ UNCHANGED <<animationFrameId, nextRequestId>>
           ELSE RequestFrame(c)
        /\ UNCHANGED detectionLoopRunning
        /\ lastOp' = "processNextFrame"
        /\ LoopUnchanged

\* an awaited processFrame() settles: resolved, the closure requests its
\* next frame whatever the flag says; rejected, the callback ends there
FrameSettled ==
    \E c \in 1..Len(chains), outcome \in {"resolved", "rejected"} :
        /\ chains[c].pc = "inflight"
        /\ IF outcome = "resolved"
           THEN RequestFrame(c)
           ELSE /\ chains' = [chains EXCEPT ![c].pc = "threw"]
                /\ UNCHANGED <<animationFrameId, nextRequestId>>
        /\ UNCHANGED detectionLoopRunning
        /\ lastOp' = "frameSettled"
        /\ LoopUnchanged

NextLoop == StartDetection \/ StopDetection \/ ProcessNextFrame \/ FrameSettled

\* the detection loop under every interleaving of its calls and callbacks
SpecLoop == InitAlone /\ [][NextLoop]_vars

----------------------------------------------------------------------------
(* Capture sessions and the clear-data handler, interleaved *)

\* the capture button is not clicked more often than this
MaxSessions == 2

\* the progress a session shows while it collects, in the order of
\* captureReferencePose
CaptureSignals == <<"settling", "3", "2", "1", "capturing">>

\* the positions of captureReferencePose at which isCapturing was set by
\* it and not yet cleared by it: the awaits of the five timers
CollectingAt == {"settling", "count3", "count2", "count1", "capturing"}

\* a captureReferencePose() call as entered: both buttons are disabled,
\* nothing shown, nothing received
SessionEntered(pc) ==
    [pc |-> pc, signals |-> <<>>, received |-> <<>>, bufferAtEnd |-> <<>>,
     reference |-> NoReference, behindClear |-> FALSE]

\* what no handler of this part touches
SessionsUnchanged ==
    UNCHANGED <<proxVars, postVars, now, engCfgVars, engVars, frameVars,
                lastResults, twin, windowVars, storeVars, triVars, detVars,
                loopVars, capturePhase, pendingReference, captureRet,
                saveAttempted, sessionStart>>

\* captureReferencePose from `captureBuffer.length = 0` to its first
\* timer: the buffer is emptied, collection switched on, the instruction
\* shown
BeginCollecting(s) ==
    [s EXCEPT !.pc = "settling", !.signals = Append(@, CaptureSignals[1])]

\* the capture button is clicked: both buttons are disabled; with the
\* detection loop running the session begins to collect, otherwise it
\* awaits the webcam
SessionClick ==
    /\ ~captureBtnDisabled
    /\ Len(sessions) < MaxSessions
    /\ captureBtnDisabled' = TRUE
    /\ startBtnDisabled' = TRUE
    /\ clearedSince' = FALSE
    /\ IF detectionLoopRunning
       THEN /\ captureBuffer' = <<>>
            /\ isCapturing' = TRUE
            /\ sessions' = Append(sessions, BeginCollecting(SessionEntered("entered")))
       ELSE /\ sessions' = Append(sessions, SessionEntered("starting"))
            /\ UNCHANGED <<captureBuffer, isCapturing>>
    /\ lastOp' = "sessionClick"
    /\ UNCHANGED <<detectionLoopRunning, currentReference, savedReference, clearPc>>
    /\ SessionsUnchanged

\* ensureDetectionRunning() settles: the webcam is there and the loop
\* started, and the session begins to collect; or it is not, and the
\* session returns null with the capture button enabled again
SessionWebcam ==
    \E i \in 1..Len(sessions), webcam \in {"ok", "fails"} :
        /\ sessions[i].pc = "starting"
        /\ IF webcam = "ok"
           THEN /\ detectionLoopRunning' = TRUE
                /\ captureBuffer' = <<>>
                /\ isCapturing' = TRUE
                /\ sessions' = [sessions EXCEPT ![i] = BeginCollecting(@)]
                /\ UNCHANGED captureBtnDisabled
           ELSE /\ captureBtnDisabled' = FALSE
                /\ sessions' = [sessions EXCEPT ![i].pc = "returned"]
                /\ UNCHANGED <<detectionLoopRunning, captureBuffer, isCapturing>>
        /\ lastOp' = "sessionWebcam"
        /\ UNCHANGED <<startBtnDisabled, currentReference, savedReference,
                       clearPc, clearedSince>>
        /\ SessionsUnchanged

\* one of the first four timers of a session runs out: the next count, or
\* `Capturing...`, is shown
SessionCountdown ==
    \E i \in 1..Len(sessions) :
        /\ sessions[i].pc \in CollectingAt \ {"capturing"}
        /\ sessions' = [sessions EXCEPT
               ![i].pc = CASE @ = "settling" -> "count3"
                           [] @ = "count3" -> "count2"
                           [] @ = "count2" -> "count1"
                           [] OTHER -> "capturing",
               ![i].signals = Append(@, CaptureSignals[Len(@) + 1])]
        /\ lastOp' = "sessionCountdown"
        /\ UNCHANGED <<detectionLoopRunning, startBtnDisabled, isCapturing,
                       captureBuffer, currentReference, savedReference,
                       captureBtnDisabled, clearPc, clearedSince>>
        /\ SessionsUnchanged

\* the last timer runs out: collection is switched off and the buffer
\* validated; too few triangles end the session in failure, otherwise the
\* reference is averaged from the buffer and saveReference() called
SessionCollected ==
    \E i \in 1..Len(sessions) :
        /\ sessions[i].pc = "capturing"
        /\ isCapturing' = FALSE
        /\ IF TooFewFrames(captureBuffer)
           THEN /\ sessions' = [sessions EXCEPT
                       ![i].pc = "returned",
                       ![i].bufferAtEnd = captureBuffer,
                       ![i].signals = Append(@, "failure")]
                /\ captureBtnDisabled' = FALSE
           ELSE /\ sessions' = [sessions EXCEPT
                       ![i].pc = "saving",
                       ![i].bufferAtEnd = captureBuffer,
                       ![i].reference = AveragedReference(captureBuffer),
                       ![i].behindClear = (clearPc = "clearing")]
                /\ UNCHANGED captureBtnDisabled
        /\ lastOp' = "sessionCollected"
        /\ UNCHANGED <<detectionLoopRunning, startBtnDisabled, captureBuffer,
                       currentReference, savedReference, clearPc, clearedSince>>
        /\ SessionsUnchanged

\* saveReference() settles, the database serving its requests in the
\* order they were made.  Resolved: the record is stored, success shown,
\* the buttons enabled, and the click handler makes the returned reference
\* current.  Rejected: failure shown, the capture button enabled.
SessionSaved ==
    \E i \in 1..Len(sessions), outcome \in {"resolved", "rejected"} :
        \E returned \in {CaptureReturn(outcome, sessions[i].reference)} :
            /\ sessions[i].pc = "saving"
            /\ sessions[i].behindClear => clearPc = "idle"
            /\ savedReference' = IF outcome = "resolved"
                                 THEN StoreGet(StorePut(<<>>, sessions[i].reference))
                                 ELSE savedReference
            /\ startBtnDisabled' = IF outcome = "resolved" THEN FALSE
                                   ELSE startBtnDisabled
            /\ captureBtnDisabled' = FALSE
            /\ currentReference' = ReferenceAfterCapture(currentReference, returned)
            /\ sessions' = [sessions EXCEPT
                   ![i].pc = "returned",
                   ![i].signals = Append(@, IF outcome = "resolved"
                                            THEN "success" ELSE "failure")]
            /\ lastOp' = "sessionSaved"
            /\ UNCHANGED <<detectionLoopRunning, isCapturing, captureBuffer,
                           clearPc, clearedSince>>
            /\ SessionsUnchanged

\* onDetectorResults: while isCapturing is set, an observation with nose
\* and both shoulders adds its triangle to the buffer.  Each session that
\* is collecting has received the observation.
SessionFrame ==
    \E results \in { Obs(pose, <<>>, <<>>, <<>>) : pose \in {PoseUpright, PoseShort} } :
        /\ detectionLoopRunning
        /\ captureBuffer' = IF isCapturing THEN CapturePush(captureBuffer, results)
                            ELSE captureBuffer
        /\ sessions' = [i \in 1..Len(sessions) |->
                          IF sessions[i].pc \in CollectingAt
                          THEN [sessions[i] EXCEPT
                                   !.received = CapturePush(@, results)]
                          ELSE sessions[i]]
        /\ Len(captureBuffer') <= MaxCaptureFrames
        /\ \A i \in 1..Len(sessions) :
               Len(sessions'[i].received) <= MaxCaptureFrames
        /\ lastOp' = IF extractTriangleLandmarks(results.poseLandmarks).ok
                     THEN "sessionFrame" ELSE "sessionFrameSkipped"
        /\ UNCHANGED <<detectionLoopRunning, startBtnDisabled, isCapturing,
                       currentReference, savedReference, captureBtnDisabled,
                       clearPc, clearedSince>>
        /\ SessionsUnchanged

\* the clear-data link is clicked: detection is stopped and clearAllData()
\* called
ClearClick ==
    /\ clearPc = "idle"
    /\ detectionLoopRunning' = FALSE
    /\ clearPc' = "clearing"
    /\ lastOp' = "clearClick"
    /\ UNCHANGED <<startBtnDisabled, isCapturing, captureBuffer,
                   currentReference, savedReference, captureBtnDisabled,
                   sessions, clearedSince>>
    /\ SessionsUnchanged

\* clearAllData() settles, once the saves requested before it have.
\* Resolved: the database is deleted, currentReference set to null, the
\* capture button enabled and the start button disabled.  Rejected:
\* nothing changes.
ClearSettled ==
    \E outcome \in {"resolved", "rejected"} :
        /\ clearPc = "clearing"
        /\ \A i \in 1..Len(sessions) :
               sessions[i].pc = "saving" => sessions[i].behindClear
        /\ clearPc' = "idle"
        /\ sessions' = [i \in 1..Len(sessions) |->
                          [sessions[i] EXCEPT !.behindClear = FALSE]]
        /\ IF outcome = "resolved"
           THEN /\ savedReference' = StoreGet(StoreDeleted)
                /\ currentReference' = NoReference
                /\ captureBtnDisabled' = FALSE
                /\ startBtnDisabled' = TRUE
                /\ clearedSince' = TRUE
           ELSE UNCHANGED <<savedReference, currentReference, captureBtnDisabled,
                            startBtnDisabled, clearedSince>>
        /\ lastOp' = "clearSettled"
        /\ UNCHANGED <<detectionLoopRunning, isCapturing, captureBuffer>>
        /\ SessionsUnchanged

NextSessions ==
    \/ SessionClick \/ SessionWebcam \/ SessionCountdown \/ SessionCollected
    \/ SessionSaved \/ SessionFrame \/ ClearClick \/ ClearSettled

\* capture sessions, frames and clear-data clicks in every interleaving
SpecSessions == InitMonitoring /\ [][NextSessions]_vars

----------------------------------------------------------------------------
(* Claims on the detectors *)

----------------------------------------------------------------------------
(* Claims on the frame orchestration *)

C6_AcknowledgeOnlyOnFiredDispatch ==
    [][lastOp' = "frame" =>
          /\ (wasNear' /\ ~wasNear)
                => (offered' = "proximity" /\ frameFires' = 1 /\ trigRet' = "true")
          /\ (wasBad' /\ ~wasBad)
                => (offered' = "posture" /\ frameFires' = 1 /\ trigRet' = "true")
          /\ (offered' # "none" /\ trigRet' = "false")
                => (frameFires' = 0 /\ (wasNear' => wasNear) /\ (wasBad' => wasBad))
          /\ (offered' = "proximity" /\ trigRet' = "true")
                => (wasNear' /\ (wasBad' => wasBad))
          /\ (offered' = "posture" /\ trigRet' = "true")
                => (wasBad' /\ (wasNear' => wasNear))]_vars

\* a posture alert fired and latched the posture detector while the hands
\* were near the face and the proximity detector stayed unlatched
C6_Witness ==
    /\ lastOp = "frame" /\ offered = "posture" /\ frameFires = 1
    /\ wasBad /\ ~wasNear /\ proxFrame \in NearKinds

\* C7 as stated: after the 20 near frames of the run exactly one alert has
\* fired.
C7_ExactlyOneAlertInRun ==
    frameCount = E2EFrames => firedCount = 1

\* C8: once the near condition has become steady, an alert for it fires:
\* trigger() returns true and the proximity detector is latched; and no
\* second alert fires for it while it lasts.
C8_SteadyConditionEventuallyAlerts ==
    /\ steady ~> (steadyFires >= 1 /\ wasNear)
    /\ [](steadyFires <= 1)
    /\ [][(steady /\ steadyFires >= 1) => wasNear']_vars

\* the alert of a steady condition fired on a frame past the third of its
\* run, in a run that began too late for anything but the cooldown of an
\* earlier alert to have suppressed its first emissions
C8_Witness ==
    /\ lastOp = "frame" /\ steady /\ steadyFires = 1
    /\ offered = "proximity" /\ frameFires = 1 /\ wasNear
    /\ proxRun > framesToTrigger /\ now - proxRun >= LiveCooldownMs

----------------------------------------------------------------------------
(* Claims on the alert engine *)

\* C3: once an alert has fired, a trigger() call returns true exactly when
\* cooldownMs or more has elapsed since the last fired alert and false
\* otherwise, whatever the variant and the reason: of a call that fires and
\* one made within the window it opens, the first returns true and the
\* second false, and any two fired alerts are at least cooldownMs apart.
C3_OneAlertPerCooldownWindow ==
    [][(lastOp' = "trigger" /\ firedAt >= 0)
          => /\ (trigRet' = "true") = (now' - firedAt >= cooldownMs)
             /\ trigRet' \in {"true", "false"}
             /\ trigRet' = "true" => firedAt' - firedAt >= cooldownMs]_vars

\* a call one millisecond before the end of the window of a fired alert
\* was suppressed
C3_Witness ==
    /\ lastOp = "trigger" /\ trigRet = "false"
    /\ firedAt >= 0 /\ now - firedAt = cooldownMs - 1

\* C4: a trigger() call made inside the cooldown window returns false and
\* changes nothing: lastAlertAtMs, the body class, the pending timeouts and
\* the audio context keep their values, and no flash, toast or tone is
\* requested.
C4_SuppressedCallChangesNothing ==
    [][(lastOp' = "trigger" /\ now' - lastAlertAtMs < cooldownMs)
          => /\ trigRet' = "false"
             /\ UNCHANGED <<lastAlertAtMs, bodyClass, flashTimers, audioCtx,
                            beepPending>>
             /\ flashOut' = "none" /\ toastOut' = "none"
             /\ ~beepOut' /\ ~toneOut']_vars

\* a normal trigger() was suppressed after the flash of the alert before it
\* had ended, and the time of that alert is still the one recorded
C4_Witness ==
    /\ lastOp = "trigger" /\ trigRet = "false" /\ trigVariant = "normal"
    /\ firedAt >= 0 /\ lastAlertAtMs = firedAt /\ now > firedAt
    /\ bodyClass = "none" /\ flashOut = "none"

\* C9: a fired low-confidence trigger() requests the yellow flash and
\* nothing else: no toast, no beep() call and no tone, in every state of
\* the engine.
C9_LowConfidenceFlashOnly ==
    (lastOp = "trigger" /\ trigVariant = "low-confidence" /\ trigRet # "false")
        => /\ trigRet = "true"
           /\ flashOut = "yellow" /\ bodyClass = "yellow"
           /\ toastOut = "none" /\ ~beepOut /\ ~toneOut

\* a low-confidence alert fired in an engine whose audio context exists
C9_Witness ==
    /\ lastOp = "trigger" /\ trigVariant = "low-confidence"
    /\ trigRet = "true" /\ flashOut = "yellow" /\ audioCtx = "created"

\* C10: a fired normal trigger() requests the red flash, the toast with the
\* reason string and the tone; whatever happens to the tone (no
\* AudioContext, a constructor or oscillator error, a suspended context
\* whose resume() is still pending), trigger() returns true with the flash
\* and the toast done and the cooldown started, and a beep() that continues
\* later changes none of that.
C10_NormalAlertSurvivesAudioFailure ==
    [][/\ (lastOp' = "trigger" /\ trigVariant' = "normal"
               /\ ~(now' - lastAlertAtMs < cooldownMs))
          => /\ trigRet' = "true"
             /\ flashOut' = "red" /\ bodyClass' = "red"
             /\ toastOut' = trigReason' /\ beepOut'
             /\ lastAlertAtMs' = now'
       /\ lastOp' = "beepResume"
          => UNCHANGED <<lastAlertAtMs, bodyClass, flashTimers, trigRet>>]_vars

\* a normal alert fired although no audio context could be made
C10_Witness ==
    /\ lastOp = "trigger" /\ trigVariant = "normal" /\ trigRet = "true"
    /\ flashOut = "red" /\ toastOut = trigReason /\ beepOut /\ ~toneOut
    /\ audioCtx = "null" /\ lastAlertAtMs = now

\* C11 as stated: no trigger() call raises an error to its caller, whatever
\* the variant, the reason, the engine's state and the collaborators do,
\* a showToast callback that throws included.
C11_TriggerNeverRaises ==
    lastOp = "trigger" => trigRet \in {"true", "false"}

----------------------------------------------------------------------------
(* Claims on the posture detector *)

C18_HeadTiltGuardSelectsVariant ==
    (lastOp = "postUpdate" /\ postRet # "none") =>
        LET liveHead == MovingAverageMean(headDeltaAvg)
            refHead == noseToShoulderMidpointDeltaY(currentReference.nose,
                           currentReference.leftShoulder,
                           currentReference.rightShoulder)
        IN /\ postRet \in {"normal", "low-confidence"}
           /\ IF refHead > 0
              THEN (postRet = "low-confidence")
                      <=> (10 * liveHead < headTiltLowConfidenceThreshold * refHead)
              ELSE postRet = "normal"

\* an event for a reference whose head delta is negative, on a frame whose
\* own head delta is negative too: the variant is `normal`
C18_Witness ==
    /\ lastOp = "postUpdate" /\ postRet = "normal"
    /\ noseToShoulderMidpointDeltaY(currentReference.nose,
           currentReference.leftShoulder, currentReference.rightShoulder) < 0
    /\ MovingAverageMean(headDeltaAvg) < 0

\* C19 as stated: after every update() on a frame with a valid triangle
\* getLastScore() returns a snapshot whose overall, ratioComponent and
\* zComponent lie in 0..100 and whose headTiltConfidence lies in 0..1
\* (0..100 hundredths), whatever the reference and the live landmarks.
C19_ScoreSnapshotInRange ==
    (lastOp = "postUpdate" /\ postFrame # "invalid") =>
        /\ ~lastScore.isNull
        /\ lastScore.overall \in 0..Scale
        /\ lastScore.ratioComponent \in 0..Scale
        /\ lastScore.zComponent \in 0..Scale
        /\ lastScore.headTiltConfidence \in 0..Scale

----------------------------------------------------------------------------
(* Claims on calibration and on the app *)

\* C12: while a capture session is active (isCapturing), every observation
\* that arrives goes to the capture buffer, one with a valid triangle
\* appended and any other skipped; neither detector is updated, trigger()
\* is not called and nothing is requested from the flash, the toast or the
\* beep: no alert fires between the start and the end of the session.
C12_CaptureExcludesAlerting ==
    [][isCapturing =>
          /\ UNCHANGED <<nearStreak, wasNear, proxRet, ratioAvg, headDeltaAvg,
                         zAvg, badStreak, wasBad, lastScore, postRet>>
          /\ UNCHANGED <<lastAlertAtMs, firedAt, trigVariant, trigReason,
                         trigRet, audioCtx, beepPending>>
          /\ flashOut' = "none" /\ toastOut' = "none" /\ ~beepOut'
          /\ lastOp' # "frame"
          /\ lastOp' = "captureFrame" =>
                /\ Len(captureBuffer') = Len(captureBuffer) + 1
                /\ SubSeq(captureBuffer', 1, Len(captureBuffer)) = captureBuffer
                /\ offered' = "none" /\ frameFires' = 0
          /\ lastOp' = "captureSkip" =>
                /\ UNCHANGED captureBuffer
                /\ offered' = "none" /\ frameFires' = 0]_vars

\* frames were collected in a session that began with the proximity streak
\* one short of the trigger count and the dispatcher out of its cooldown
C12_Witness ==
    /\ isCapturing /\ lastOp = "captureFrame"
    /\ Len(captureBuffer) >= framesToTrigger
    /\ nearStreak = framesToTrigger - 1 /\ ~wasNear
    /\ now - lastAlertAtMs >= cooldownMs

\* C13 as stated: a session that ends with fewer than 10 triangles in the
\* buffer fails and reports the count; one that ends with 10 or more
\* succeeds and produces a ReferencePose.
C13_TenFramesSucceed ==
    (capturePhase = "idle" /\ lastOp \in {"captureFinish", "saveSettled"}) =>
        IF Len(captureBuffer) < MIN_CAPTURE_FRAMES
        THEN captureRet = [status |-> "insufficient", count |-> Len(captureBuffer)]
        ELSE captureRet.status = "ok" /\ ~currentReference.isNull

\* C13 as amended: a session whose buffer holds fewer than 10 triangles
\* when capturing stops fails at once, reporting the count; one whose
\* buffer holds 10 or more computes a ReferencePose and calls
\* saveReference() with it, and then succeeds, returning that ReferencePose,
\* exactly when the save resolves, and fails with the save failure when it
\* rejects.
C13_MinimumFrameCount ==
    /\ lastOp = "captureFinish" =>
          IF Len(captureBuffer) < MIN_CAPTURE_FRAMES
          THEN /\ capturePhase = "idle" /\ ~saveAttempted
               /\ captureRet = [status |-> "insufficient",
                                count |-> Len(captureBuffer)]
          ELSE /\ capturePhase = "saving" /\ saveAttempted
               /\ ~pendingReference.isNull
    /\ lastOp = "saveSettled" =>
          /\ Len(captureBuffer) >= MIN_CAPTURE_FRAMES
          /\ captureRet.status \in {"ok", "save-failed"}
          /\ captureRet.status = "ok" =>
                (~currentReference.isNull /\ currentReference = savedReference)

\* a session with exactly 10 triangles succeeded
C13_Witness ==
    /\ lastOp = "saveSettled"
    /\ captureRet = [status |-> "ok", count |-> MIN_CAPTURE_FRAMES]
    /\ ~currentReference.isNull

\* C14: when a session fails for insufficient frames, saveReference() was
\* not called in it, and the stored reference and the in-memory reference
\* are the ones of the session's start.
C14_InsufficientFramesChangeNothing ==
    (capturePhase = "idle" /\ captureRet.status = "insufficient") =>
        /\ ~saveAttempted
        /\ currentReference = sessionStart[1]
        /\ savedReference = sessionStart[2]

\* a session with 9 triangles failed and the reference calibrated before
\* it is still current
C14_Witness ==
    /\ lastOp = "captureFinish"
    /\ captureRet = [status |-> "insufficient", count |-> MIN_CAPTURE_FRAMES - 1]
    /\ ~currentReference.isNull /\ currentReference = savedReference

\* C15: when the average was computed and saveReference() rejects, the
\* session ends with the save failure, not the insufficient-frames one,
\* and the in-memory reference and the stored one are those of the
\* session's start, not the computed one; at every moment the in-memory
\* reference is the last one stored.
C15_SaveFailureKeepsStoredReference ==
    /\ (lastOp = "saveSettled" /\ captureRet.status # "ok") =>
          /\ captureRet.status = "save-failed"
          /\ Len(captureBuffer) >= MIN_CAPTURE_FRAMES /\ saveAttempted
          /\ currentReference = sessionStart[1]
          /\ savedReference = sessionStart[2]
    /\ currentReference = savedReference

\* the save of a computed reference failed while another reference was
\* current
C15_Witness ==
    /\ lastOp = "saveSettled" /\ captureRet.status = "save-failed"
    /\ ~currentReference.isNull
    /\ AveragedReference(captureBuffer) # currentReference

\* C16: the ReferencePose a session saves has, for each of nose,
\* leftShoulder and rightShoulder, x, y and z equal to the mean of that
\* coordinate over the buffered triangles (a missing z counted as 0; the
\* mean held to the hundredth below), and its ratio is
\* calculateTriangleRatio of those averaged landmarks; when the buffered
\* triangles are all the same, the landmarks are that triangle's and the
\* ratio is calculateTriangleRatio of it.
C16_SavedRatioOfAveragedLandmarks ==
    (lastOp = "saveSettled" /\ captureRet.status = "ok") =>
        LET n == Len(captureBuffer)
            r == savedReference
        IN /\ \A part \in {"nose", "leftShoulder", "rightShoulder"} :
                \A coord \in {"x", "y", "z"} :
                    /\ n * r[part][coord] <= SumCoord(captureBuffer, part, coord, 1)
                    /\ SumCoord(captureBuffer, part, coord, 1)
                          < n * (r[part][coord] + 1)
           /\ r.ratio = calculateTriangleRatio(r.nose, r.leftShoulder,
                                               r.rightShoulder)
           /\ (\A i \in 1..n : captureBuffer[i] = captureBuffer[1]) =>
                 /\ r.ratio = calculateTriangleRatio(captureBuffer[1].nose,
                                  captureBuffer[1].leftShoulder,
                                  captureBuffer[1].rightShoulder)
                 /\ \A part \in {"nose", "leftShoulder", "rightShoulder"} :
                       /\ r[part].x = captureBuffer[1][part].x
                       /\ r[part].y = captureBuffer[1][part].y
                       /\ r[part].z = captureBuffer[1][part].z

\* a reference was saved from a buffer of two different triangles, and its
\* ratio is not the average of the frames' ratios
C16_Witness ==
    /\ lastOp = "saveSettled" /\ captureRet.status = "ok"
    /\ captureBuffer[1] # captureBuffer[Len(captureBuffer)]
    /\ savedReference.ratio # SumRatio(captureBuffer, 1) \div Len(captureBuffer)

\* C20 as stated: once monitoring has been stopped both detectors are as
\* reset: streaks 0, latches clear, smoothing windows empty, so that
\* nothing from before the stop is carried into the frames after a start.
C20_StopResetsDetectors ==
    lastOp = "stop" =>
        /\ nearStreak = 0 /\ ~wasNear
        /\ badStreak = 0 /\ ~wasBad
        /\ ratioAvg = MovingAverageEmpty /\ headDeltaAvg = MovingAverageEmpty
        /\ zAvg = MovingAverageEmpty

----------------------------------------------------------------------------
(* Claims on the proximity detector's frames *)

\* the observation of the last update() has no face, or no hand, or a face
\* whose landmarks all coincide
LastMissingOrDegenerate ==
    LET face == lastResults.faceLandmarks
    IN \/ Len(face) = 0
       \/ Len(lastResults.leftHandLandmarks) = 0
            /\ Len(lastResults.rightHandLandmarks) = 0
       \/ \A i, j \in 1..Len(face) : face[i].x = face[j].x /\ face[i].y = face[j].y

\* C25: HandFaceProximity.update() on an observation with no face
\* landmarks, or with both hands empty, or with a face rectangle of size 0,
\* returns no event and leaves the streak 0 and the latch clear.
C25_DegenerateFrameResets ==
    (lastOp = "proxUpdate" /\ LastMissingOrDegenerate) =>
        /\ proxRet = "none"
        /\ nearStreak = 0 /\ ~wasNear

\* update() was given a face of a single landmark with a hand on it
C25_Witness ==
    /\ lastOp = "proxUpdate"
    /\ lastResults.faceLandmarks = FacePoint
    /\ lastResults.leftHandLandmarks = HandInside
    /\ proxRet = "none" /\ nearStreak = 0 /\ ~wasNear

\* the mean depth of the face and of the hands of the last observation, as
\* fractions, and whether the hand is within the 2D distance threshold
LastFaceDepth == meanZ(lastResults.faceLandmarks)
LastHandDepth ==
    handZOf(meanZ(lastResults.leftHandLandmarks),
            meanZ(lastResults.rightHandLandmarks))
LastWithin2D ==
    LET rect == computeBoundingBox(lastResults.faceLandmarks)
        size == Max2(rect.maxX - rect.minX, rect.maxY - rect.minY)
        hands == lastResults.leftHandLandmarks \o lastResults.rightHandLandmarks
    IN \E i \in 1..Len(hands) :
          Scale * Scale * distancePointToRectSq(hands[i], rect)
             <= normalizedDistanceThreshold * normalizedDistanceThreshold
                  * size * size

\* C27: a frame whose normalized 2D distance is within the threshold is
\* near when the mean depth of the face or of the hands is unavailable,
\* and also when both are available and differ by at most
\* zDistanceThreshold; it is not near when both are available and differ
\* by more, and then the streak is 0, the latch clear and no event returned.
C27_DepthGate ==
    (lastOp = "proxUpdate" /\ ~LastMissingOrDegenerate /\ LastWithin2D) =>
        LET f == LastFaceDepth
            h == LastHandDepth
            apart == Scale * Abs(h.sum * f.count - f.sum * h.count)
                        > zDistanceThreshold * Scale * h.count * f.count
        IN IF f.count = 0 \/ h.count = 0 \/ ~apart
           THEN proxFrame \in NearKinds /\ nearStreak >= 1
           ELSE /\ proxFrame = "far" /\ proxRet = "none"
                /\ nearStreak = 0 /\ ~wasNear

\* a hand with depth next to a face without: the third such frame
\* returned the event
C27_Witness ==
    /\ lastOp = "proxUpdate"
    /\ LastFaceDepth.count = 0 /\ LastHandDepth.count > 0
    /\ LastWithin2D
    /\ nearStreak = framesToTrigger /\ proxRet = "normal"

\* the face size of the last observation: the larger of the spans of the
\* face landmarks in x and in y
LastFaceSize ==
    LET face == lastResults.faceLandmarks
        span(c) == CHOOSE d \in 0..Scale :
                      /\ \E i, j \in 1..Len(face) : face[i][c] - face[j][c] = d
                      /\ \A i, j \in 1..Len(face) : face[i][c] - face[j][c] <= d
    IN Max2(span("x"), span("y"))

\* C28: an event returned by HandFaceProximity.update() is low-confidence
\* iff the face size on that frame is below minFaceSize, and normal
\* otherwise; on a near frame an event is returned iff the streak has
\* reached framesToTrigger and the latch is clear, whatever the face size.
C28_VariantByFaceSize ==
    (lastOp = "proxUpdate" /\ proxFrame \in NearKinds) =>
        /\ proxRet # "none" <=> (nearStreak >= framesToTrigger /\ ~wasNear)
        /\ proxRet = "low-confidence" =>  LastFaceSize < minFaceSize
        /\ proxRet = "normal" => LastFaceSize >= minFaceSize

\* a low-confidence event on the third near frame with a small face
C28_Witness ==
    /\ lastOp = "proxUpdate" /\ proxRet = "low-confidence"
    /\ nearStreak = framesToTrigger
    /\ lastResults.faceLandmarks = FaceSmall

----------------------------------------------------------------------------
(* Claims on the posture detector's frames *)

\* C26: PostureDeviation.update() on an observation whose pose landmarks
\* are empty, or lack the nose or a shoulder, returns no event and leaves
\* the three smoothing windows empty, the streak 0, the latch clear and the
\* last score null; the valid frame that follows such a frame leaves one
\* sample, its own, in the ratio and head-delta windows and at most one in
\* the depth window.
C26_InvalidFrameResets ==
    [][lastOp' = "postUpdate" =>
          LET pose == lastResults'.poseLandmarks
          IN IF \/ Len(pose) = 0
                \/ Len(pose) < LANDMARK_NOSE + 1
                \/ Len(pose) < LANDMARK_LEFT_SHOULDER + 1
                \/ Len(pose) < LANDMARK_RIGHT_SHOULDER + 1
             THEN /\ postRet' = "none"
                  /\ ratioAvg'.values = <<>> /\ ratioAvg'.sum = 0
                  /\ headDeltaAvg'.values = <<>> /\ headDeltaAvg'.sum = 0
                  /\ zAvg'.values = <<>> /\ zAvg'.sum = 0
                  /\ badStreak' = 0 /\ ~wasBad'
                  /\ lastScore'.isNull
             ELSE (lastOp = "postUpdate" /\ postFrame = "invalid") =>
                     /\ ratioAvg'.values =
                           <<calculateTriangleRatio(pose[LANDMARK_NOSE + 1],
                                                    pose[LANDMARK_LEFT_SHOULDER + 1],
                                                    pose[LANDMARK_RIGHT_SHOULDER + 1])>>
                     /\ Len(headDeltaAvg'.values) = 1
                     /\ Len(zAvg'.values) <= 1
                     /\ badStreak' <= 1]_vars

\* update() was given a pose array that ends before the shoulders
C26_Witness ==
    /\ lastOp = "postUpdate"
    /\ lastResults.poseLandmarks = PoseShort
    /\ postRet = "none" /\ ratioAvg = MovingAverageEmpty
    /\ badStreak = 0 /\ lastScore.isNull

\* C29: of two PostureDeviation detectors given the same calls, the same
\* reference x, y and ratio and the same live x and y, and differing in the
\* depths of the live and the reference landmarks only, each update()
\* returns an event on the one iff on the other, of the same variant, and
\* the streaks, the latches and the ratio and head-delta windows are equal.
C29_DepthNeverDecides ==
    /\ twin.ret = postRet
    /\ twin.st.badStreak = badStreak
    /\ twin.st.wasBad = wasBad
    /\ twin.st.ratioAvg = ratioAvg
    /\ twin.st.headDeltaAvg = headDeltaAvg

\* both detectors returned the event on the same frame while their depth
\* windows and their scores differ
C29_Witness ==
    /\ lastOp = "twinUpdate" /\ postRet = "normal" /\ twin.ret = "normal"
    /\ twin.st.zAvg # zAvg
    /\ twin.st.lastScore.overall # lastScore.overall

\* the sum of a sequence of samples
RECURSIVE SumOf(_)
SumOf(samples) ==
    IF samples = <<>> THEN 0 ELSE Head(samples) + SumOf(Tail(samples))

\* C30: after any add() and reset() calls a MovingAverage holds at most
\* windowSize samples, they are the most recent min(n, windowSize) of the n
\* added since the last reset, the running sum is their sum, and add()
\* returned their mean (held to the thousandth below).
C30_WindowInvariant ==
    LET n == Len(added)
        k == Min2(n, windowSize)
        recent == SubSeq(added, n - k + 1, n)
    IN /\ Len(window.values) <= windowSize
       /\ window.values = recent
       /\ window.sum = SumOf(window.values)
       /\ lastOp = "add" =>
             /\ k * addRet <= SumOf(recent)
             /\ SumOf(recent) < k * (addRet + 1)

\* more samples were added than the window holds, and the one evicted
\* differs from the one that came in
C30_Witness ==
    /\ lastOp = "add"
    /\ Len(added) > windowSize
    /\ added[Len(added) - windowSize] # added[Len(added)]
    /\ Len(window.values) = windowSize

----------------------------------------------------------------------------
(* Claims on the reference store and the triangle ratio *)

\* the pose of the last save that succeeded, none after a deletion
LastWritten == IF written = <<>> THEN NoReference ELSE written[Len(written)]

NoseOnMidpoint ==
    /\ 2 * triangle.nose.x = triangle.leftShoulder.x + triangle.rightShoulder.x
    /\ 2 * triangle.nose.y = triangle.leftShoulder.y + triangle.rightShoulder.y

\* C23: calculateTriangleRatio returns 0, and not NaN or an infinite
\* value, for a triangle whose shoulder midpoint is at the nose, and the
\* shoulder width divided by the midpoint-to-nose distance, a finite
\* number, for any other.
C23_ZeroDistanceGivesZero ==
    lastOp \in {"ratio", "ratioScaled"} =>
        LET t == triangle
            wx == t.rightShoulder.x - t.leftShoulder.x
            wy == t.rightShoulder.y - t.leftShoulder.y
            mx2 == 2 * t.nose.x - (t.leftShoulder.x + t.rightShoulder.x)
            my2 == 2 * t.nose.y - (t.leftShoulder.y + t.rightShoulder.y)
        IN /\ triangleRatio # NaN /\ triangleRatio >= 0 /\ triangleRatio < Infinity
           /\ IF NoseOnMidpoint THEN triangleRatio = 0
              ELSE triangleRatio =
                     (2 * 10 * Scale * Sqrt(wx * wx + wy * wy, RatioPrecision))
                        \div Sqrt(mx2 * mx2 + my2 * my2, RatioPrecision)

\* the ratio of a triangle with the nose on the midpoint of shoulders that
\* are apart
C23_Witness ==
    /\ lastOp = "ratio" /\ NoseOnMidpoint
    /\ triangle.leftShoulder # triangle.rightShoulder
    /\ triangleRatio = 0

\* C24: the ratio of a triangle scaled by k > 0 about a fixed centre is the
\* ratio of the triangle (to a thousandth of the ratio, the rounding of
\* the square roots).
C24_ScaleInvariant ==
    lastOp = "ratioScaled" =>
        10 * Scale * Abs(triangleRatio - scaledFrom.ratio)
            <= Max2(triangleRatio, scaledFrom.ratio) + 10 * Scale

\* a triangle with a slanted shoulder line and the nose off the midpoint
\* was scaled to half its size
C24_Witness ==
    /\ lastOp = "ratioScaled" /\ scaledFrom.k = <<1, 2>>
    /\ triangleRatio > 0
    /\ triangle.leftShoulder.y # triangle.rightShoulder.y
    /\ triangle.leftShoulder.x # triangle.rightShoulder.x
    /\ ~NoseOnMidpoint

----------------------------------------------------------------------------
(* Claims on the app when the reference changes *)

\* C21 as stated: once a capture session has made a new reference current,
\* the posture detector is as reset (windows empty, streak 0, latch clear)
\* before any further frame is evaluated.
C21_ReferenceChangeResetsPosture ==
    (lastOp = "saveSettled" /\ captureRet.status = "ok") =>
        /\ ratioAvg = MovingAverageEmpty /\ headDeltaAvg = MovingAverageEmpty
        /\ zAvg = MovingAverageEmpty
        /\ badStreak = 0 /\ ~wasBad

----------------------------------------------------------------------------
(* Claims on the first alert and on the cooldown across variants *)

\* C34 as stated: the first trigger() call on a freshly constructed
\* AlertEngine returns true, whatever the clock reads and whatever the
\* cooldown is.
C34_FirstTriggerFires ==
    [][(lastOp' = "trigger" /\ trigRet = "none") => trigRet' = "true"]_vars

\* C35: a fired low-confidence alert opens the cooldown window like a
\* normal one: a normal trigger() made less than cooldownMs after it
\* returns false and requests no flash, no toast, no beep() and no tone.
C35_CooldownAcrossVariants ==
    [][(/\ lastOp' = "trigger" /\ trigVariant' = "normal"
        /\ firedVariant = "low-confidence" /\ now' - firedAt < cooldownMs)
          => /\ trigRet' = "false"
             /\ flashOut' = "none" /\ toastOut' = "none"
             /\ ~beepOut' /\ ~toneOut'
             /\ UNCHANGED <<lastAlertAtMs, firedAt, firedVariant>>]_vars

\* a normal trigger() was suppressed at a later clock value than the
\* low-confidence alert whose window it fell into, one millisecond before
\* the window's end
C35_Witness ==
    /\ lastOp = "trigger" /\ trigVariant = "normal" /\ trigRet = "false"
    /\ firedVariant = "low-confidence" /\ firedAt >= cooldownMs
    /\ now - firedAt = cooldownMs - 1

----------------------------------------------------------------------------
(* Claim on the depth gate with two hands *)

\* one hand of the last observation passing the near test on its own:
\* within the distance threshold of the face rectangle and, where both
\* depths are known, within the depth threshold of the face
NearOnItsOwn(hand) ==
    /\ Len(hand) > 0
    /\ isNearOf(Obs(<<>>, hand, <<>>, lastResults.faceLandmarks))

\* C36 as stated: with two hands present, a hand that passes the near
\* test on its own makes the frame near, wherever the other hand is.
C36_NearHandDecides ==
    (/\ lastOp = "proxUpdate" /\ ~LastMissingOrDegenerate
     /\ Len(lastResults.leftHandLandmarks) > 0
     /\ Len(lastResults.rightHandLandmarks) > 0
     /\ \/ NearOnItsOwn(lastResults.leftHandLandmarks)
        \/ NearOnItsOwn(lastResults.rightHandLandmarks))
        => proxFrame \in NearKinds

----------------------------------------------------------------------------
(* Claim on frame decimation *)

\* how many of the last processFrame() calls sent their frame
SentAmong(calls) == Cardinality({ i \in 1..Len(calls) : calls[i] })

\* C33: at the default decimation of 3 a processFrame() call on a loaded
\* Detector sends its frame to the model exactly when the running count is
\* a multiple of 3, so that of any 3 consecutive such calls exactly one is
\* sent; processFrame() without a model (before loadModel(), after
\* cleanup()) throws, sends nothing and counts nothing; and
\* setFrameDecimation(d) with d < 1 throws and leaves the decimation as
\* it was.
C33_FrameDecimation ==
    /\ [][(lastOp' = "processFrame" /\ detector.holistic
           /\ detector.frameDecimation = DEFAULT_FRAME_DECIMATION)
             => /\ ~detRet'.threw
                /\ detector'.frameCount = detector.frameCount + 1
                /\ detRet'.sent
                     = (detector'.frameCount % DEFAULT_FRAME_DECIMATION = 0)
                /\ Len(recentSends') = DEFAULT_FRAME_DECIMATION
                     => SentAmong(recentSends') = 1]_vars
    /\ [][(lastOp' = "processFrame" /\ ~detector.holistic)
             => detRet'.threw /\ ~detRet'.sent /\ detector' = detector]_vars
    /\ [][(lastOp' = "setFrameDecimation" /\ detRet'.arg < 1)
             => detRet'.threw /\ detector' = detector]_vars

\* the sixth frame counted was sent, the two before it were not
C33_Witness ==
    /\ lastOp = "processFrame" /\ detRet.sent /\ ~detRet.threw
    /\ detector.frameCount = 2 * DEFAULT_FRAME_DECIMATION
    /\ detector.frameDecimation = DEFAULT_FRAME_DECIMATION
    /\ recentSends = <<FALSE, FALSE, TRUE>>

----------------------------------------------------------------------------
(* Claim on the buttons after a capture session *)

\* C38 as stated: when a capture session has ended, by success or by any
\* failure, the Start/Stop button is enabled exactly when a reference pose
\* exists.
C38_StartButtonAfterSession ==
    (/\ lastOp \in {"captureClick", "captureFinish", "saveSettled"}
     /\ capturePhase = "idle")
        => (startBtnDisabled = currentReference.isNull)

----------------------------------------------------------------------------
(* Claim on the detection loop *)

\* C39 as stated: at most one chain of animation-frame callbacks sends
\* frames to the detector at any time; startDetection() while the loop runs
\* starts no second chain; and a chain that was alive when stopDetection()
\* was called sends no frame afterwards, also not after a later
\* startDetection().
C39_SingleDetectionLoop ==
    /\ [](detectionLoopRunning => Cardinality(LiveChains) <= 1)
    /\ [][(lastOp' = "startDetection" /\ detectionLoopRunning)
             => chains' = chains]_vars
    /\ [][\A c \in 1..Len(chains) :
             (chains[c].stopped /\ chains[c].pc = "scheduled")
               => chains'[c].pc # "inflight"]_vars

----------------------------------------------------------------------------
(* Claims on capture sessions under interleaving *)

\* the sessions that began to collect
Collected(s) == Len(s.signals) > 0

\* C31 as stated: the buffer is emptied when a session begins to collect;
\* when the session stops collecting the buffer holds exactly the
\* triangles of the observations that session received, in order; and an
\* observation received while no session collects leaves the buffer as it
\* is.
C31_BufferHoldsSessionFrames ==
    /\ [][\A i \in 1..Len(sessions') :
             (sessions'[i].pc = "settling"
              /\ (i > Len(sessions) \/ sessions[i].pc # "settling"))
                => captureBuffer' = <<>>]_vars
    /\ [](\A i \in 1..Len(sessions) :
             (Collected(sessions[i]) /\ sessions[i].pc \in {"saving", "returned"})
                => sessions[i].bufferAtEnd = sessions[i].received)
    /\ [][(lastOp' \in {"sessionFrame", "sessionFrameSkipped"}
           /\ \A i \in 1..Len(sessions) : sessions[i].pc \notin CollectingAt)
             => captureBuffer' = captureBuffer]_vars

\* s is t or the beginning of t
IsPrefix(s, t) == Len(s) <= Len(t) /\ s = SubSeq(t, 1, Len(s))

\* C32 as stated: a session that collects shows settling, 3, 2, 1,
\* capturing in this order and then exactly one of success and failure;
\* isCapturing is set from the settling signal until the capturing signal
\* has been shown, and is clear whenever a session ends.
C32_ProgressAndCollection ==
    /\ [](\A i \in 1..Len(sessions) :
             /\ \/ IsPrefix(sessions[i].signals, CaptureSignals)
                \/ sessions[i].signals = Append(CaptureSignals, "success")
                \/ sessions[i].signals = Append(CaptureSignals, "failure")
             /\ (Collected(sessions[i]) /\ sessions[i].pc = "returned")
                   => Len(sessions[i].signals) = Len(CaptureSignals) + 1
             /\ sessions[i].pc \in CollectingAt => isCapturing)
    /\ [][\A i \in 1..Len(sessions) :
             (/\ Collected(sessions[i])
              /\ sessions[i].pc # "returned" /\ sessions'[i].pc = "returned")
                => ~isCapturing']_vars

\* C37 as stated: once the clear-data handler has completed with success,
\* no reference pose is stored or held in memory until a capture session
\* is started afterwards.
C37_ClearIsFinal ==
    clearedSince => (savedReference.isNull /\ currentReference.isNull)

====
